---- MODULE Spec2Model ----
(***************************************************************************)
(* Mentora: the blueprint import -> weekly schedule generation -> daily    *)
(* reconciliation pipeline, modelled over the relational store.            *)
(*                                                                         *)
(* The store is the set of tables of models.py.  A table is a function     *)
(* from the primary key (a positive integer) to the row.  Columns that     *)
(* carry only display text (description, color, message, created_at,      *)
(* updated_at) are left out of the rows.                                   *)
(*                                                                         *)
(* A datetime is the number of minutes since 00:00 of day 0, and day 0 is  *)
(* a Monday.  A nullable datetime is None (= <<>>) or Some(dt) (= <<dt>>). *)
(* A nullable foreign key is NoId when NULL.  A time of day is the number  *)
(* of minutes since midnight.                                              *)
(***************************************************************************)
EXTENDS Integers, Sequences, FiniteSets, TLC

VARIABLES now,         \* the clock, datetime.utcnow()
          categories,  \* table Category:  id -> [name]
          goals,       \* table Goal:      id -> [title, category_id]
          tasks,       \* table Task:      id -> [title, goal_id, deadline, ...]
          reminders,   \* table Reminder:  id -> [task_id, reminder_time, triggered]
          blueprints,  \* table Blueprint: id -> [name, day_of_week, is_active]
          slots,       \* table TimeSlot:  id -> [blueprint_id, category_id, ...]
          dirty,       \* TimeSlot rows changed in the session, not committed
          last,        \* the last operation called and what it returned
          calls        \* the number of operations called so far

vars == <<now, categories, goals, tasks, reminders, blueprints, slots, dirty,
          last, calls>>

-----------------------------------------------------------------------------
(* Values *)

None == <<>>
Some(x) == <<x>>
NoId == 0
NoDay == "None"

MinutesPerDay == 24 * 60
At(day, h, m) == day * MinutesPerDay + h * 60 + m
DateOf(dt) == dt \div MinutesPerDay
Midnight(dt) == DateOf(dt) * MinutesPerDay
WeekdayNum(dt) == DateOf(dt) % 7

Min(a, b) == IF a <= b THEN a ELSE b
Max(a, b) == IF a >= b THEN a ELSE b
MaxOf(S) == CHOOSE x \in S : \A y \in S : y <= x

EmptyTable == <<>>
Ids(tbl) == DOMAIN tbl
Insert(tbl, id, row) == [i \in (DOMAIN tbl) \cup {id} |-> IF i = id THEN row ELSE tbl[i]]
Delete(tbl, gone) == [i \in (DOMAIN tbl) \ gone |-> tbl[i]]

(* The primary key the store gives a new row.  The configured store is     *)
(* SQLite (app.py: DATABASE_URL defaults to sqlite:///mentora.db), whose   *)
(* INTEGER PRIMARY KEY is the rowid: one more than the largest key in the  *)
(* table, 1 for an empty table.                                            *)
NextId(tbl) == IF DOMAIN tbl = {} THEN 1 ELSE MaxOf(DOMAIN tbl) + 1

(* The keys of a table in ascending order: the order of an unordered       *)
(* query (.all(), .first()).                                               *)
IdSeq(S) ==
  [r \in 1..Cardinality(S) |-> CHOOSE i \in S : Cardinality({j \in S : j < i}) = r - 1]

Take(s, n) == SubSeq(s, 1, Min(n, Len(s)))

RECURSIVE Flatten(_)
Flatten(ss) == IF ss = <<>> THEN <<>> ELSE Head(ss) \o Flatten(Tail(ss))

SeqToSet(s) == {s[i] : i \in DOMAIN s}

(* Python's list.sort(key=...): a stable sort.  keys[i] is the key of s[i], *)
(* a tuple of integers compared lexicographically.                          *)
LexLess(a, b) ==
  \E i \in DOMAIN a : a[i] < b[i] /\ \A j \in 1..(i - 1) : a[j] = b[j]
SortRank(keys, i) ==
  Cardinality({j \in DOMAIN keys :
                 LexLess(keys[j], keys[i]) \/ (keys[j] = keys[i] /\ j < i)}) + 1
StableSort(s, keys) ==
  [r \in 1..Len(s) |-> s[CHOOSE i \in 1..Len(s) : SortRank(keys, i) = r]]

(* The whole store as one record: the working copy of a session. *)
Store ==
  [categories |-> categories, goals |-> goals, tasks |-> tasks,
   reminders |-> reminders, blueprints |-> blueprints, slots |-> slots]

(* db.session.commit(): the session's working copy becomes the store and   *)
(* the session is clean.                                                   *)
Commit(S) ==
  /\ categories' = S.categories
  /\ goals' = S.goals
  /\ tasks' = S.tasks
  /\ reminders' = S.reminders
  /\ blueprints' = S.blueprints
  /\ slots' = S.slots
  /\ dirty' = EmptyTable

-----------------------------------------------------------------------------
(* schedule_engine.py: the fixed tables *)

DAYS == <<"Monday", "Tuesday", "Wednesday", "Thursday", "Friday", "Saturday", "Sunday">>

HourlySlots(first, n) ==
  [i \in 1..n |-> [start |-> <<first + i - 1, 0>>, end |-> <<first + i - 1, 50>>]]
MORNING_SLOTS == HourlySlots(6, 6)
AFTERNOON_SLOTS == HourlySlots(12, 5)
EVENING_SLOTS == HourlySlots(17, 5)

CATEGORY_BALANCE ==
  ("Class 11" :> 40) @@ ("Certifications" :> 20) @@ ("Freelancing" :> 20)
    @@ ("AI Tools" :> 10) @@ ("Career Planning" :> 10)

day_preferences ==
  ("Class 11" :> {"Monday", "Tuesday", "Wednesday", "Thursday", "Friday"})
    @@ ("AI Tools" :> {"Monday", "Wednesday", "Friday"})
    @@ ("Freelancing" :> {"Tuesday", "Thursday", "Saturday"})
    @@ ("Certifications" :> {"Monday", "Wednesday", "Friday"})
    @@ ("Career Planning" :> {"Saturday", "Sunday"})

category_time_preferences ==
  ("Class 11" :> MORNING_SLOTS)
    @@ ("AI Tools" :> MORNING_SLOTS \o AFTERNOON_SLOTS)
    @@ ("Freelancing" :> AFTERNOON_SLOTS \o EVENING_SLOTS)
    @@ ("Certifications" :> AFTERNOON_SLOTS)
    @@ ("Career Planning" :> EVENING_SLOTS)

available_slots == MORNING_SLOTS \o AFTERNOON_SLOTS \o EVENING_SLOTS

MaxDayTasks == 8

(* datetime.strptime("HH:MM", "%H:%M").time() *)
ParseTime(hm) == hm[1] * 60 + hm[2]

-----------------------------------------------------------------------------
(* schedule_engine.py: generate_weekly_schedule and its helpers *)

(* The dictionary appended to tasks_by_category for one task. *)
TaskInfo(S, id) ==
  LET t == S.tasks[id]
      g == S.goals[t.goal_id]
  IN [id |-> id, title |-> t.title, priority |-> t.priority, deadline |-> t.deadline,
      goal_id |-> t.goal_id, category |-> S.categories[g.category_id].name,
      category_id |-> g.category_id]

(* The incomplete tasks in query order, without those whose goal or        *)
(* category is missing (the two `continue`s).                              *)
ActiveInfos(S) ==
  LET ids == IdSeq({i \in Ids(S.tasks) : ~S.tasks[i].completed})
      HasCategory(i) ==
        /\ S.tasks[i].goal_id \in Ids(S.goals)
        /\ S.goals[S.tasks[i].goal_id].category_id \in Ids(S.categories)
      kept == SelectSeq(ids, HasCategory)
  IN [k \in 1..Len(kept) |-> TaskInfo(S, kept[k])]

(* The keys of a dict filled in the order of `infos`: insertion order. *)
CategoryOrder(infos) ==
  LET firsts == {i \in DOMAIN infos :
                   \A j \in 1..(i - 1) : infos[j].category # infos[i].category}
      at == IdSeq(firsts)
  IN [k \in 1..Len(at) |-> infos[at[k]].category]

(* key=lambda x: (x["priority"], x["deadline"] if x["deadline"] else datetime.max) *)
PriorityDeadlineKey(t) ==
  IF t.deadline = None THEN <<t.priority, 1, 0>> ELSE <<t.priority, 0, t.deadline[1]>>

(* tasks_by_category after the sort: one sorted list per category, in the  *)
(* dict's order.                                                           *)
tasks_by_category(S) ==
  LET infos == ActiveInfos(S)
      order == CategoryOrder(infos)
      Group(c) == LET In(t) == t.category = c IN SelectSeq(infos, In)
      Sorted(g) == StableSort(g, [i \in DOMAIN g |-> PriorityDeadlineKey(g[i])])
  IN [k \in DOMAIN order |-> Sorted(Group(order[k]))]

is_task_eligible_for_day(task, day, clock) ==
  \/ /\ task.deadline # None
     /\ DateOf(task.deadline[1]) <= DateOf(clock) + 1
  \/ day \in (IF task.category \in DOMAIN day_preferences
                THEN day_preferences[task.category]
                ELSE SeqToSet(DAYS))

(* day_tasks: the eligible tasks, category by category. *)
day_tasks_of(byCategory, day, clock) ==
  LET Eligible(t) == is_task_eligible_for_day(t, day, clock)
  IN Flatten([k \in DOMAIN byCategory |-> SelectSeq(byCategory[k], Eligible)])

(* category_limits[category] = max(1, int(total_tasks * percentage / 100)) *)
CategoryLimit(total, c) == Max(1, (total * CATEGORY_BALANCE[c]) \div 100)

(* category_limits[category] -= 1, once per task taken in a pass *)
LimitAfterNoDecrement(limit, taken) == limit
LimitAfter(limit, taken) == limit - taken

(* A balance that fills each category's limit from its last tasks on. *)
BalanceLowFirst(day_tasks) ==
  LET order == CategoryOrder(day_tasks)
      total == Min(Len(day_tasks), MaxDayTasks)
      OfCategory(c) == LET In(t) == t.category = c IN SelectSeq(day_tasks, In)
      limit(c) == IF c \in DOMAIN CATEGORY_BALANCE THEN CategoryLimit(total, c) ELSE 1
      Last(g, n) == SubSeq(g, Len(g) - Min(n, Len(g)) + 1, Len(g))
  IN Flatten([k \in DOMAIN order |-> Last(OfCategory(order[k]), limit(order[k]))])

balance_day_tasks(day_tasks) ==
  LET order == CategoryOrder(day_tasks)
      total == Min(Len(day_tasks), MaxDayTasks)
      Known(c) == c \in DOMAIN CATEGORY_BALANCE
      OfPriority(c, p) ==
        LET In(t) == t.category = c /\ t.priority = p IN SelectSeq(day_tasks, In)
      high(c) ==
        Take(OfPriority(c, 1), IF Known(c) THEN CategoryLimit(total, c) ELSE 1)
      afterHigh(c) == LimitAfter(CategoryLimit(total, c), Len(high(c)))
      medium(c) ==
        Take(OfPriority(c, 2), IF Known(c) THEN afterHigh(c) ELSE 0)
      afterMedium(c) == LimitAfter(afterHigh(c), Len(medium(c)))
      low(c) ==
        Take(OfPriority(c, 3), IF Known(c) THEN afterMedium(c) ELSE 0)
  IN Flatten([k \in DOMAIN order |-> high(order[k])])
       \o Flatten([k \in DOMAIN order |-> medium(order[k])])
       \o Flatten([k \in DOMAIN order |-> low(order[k])])

(* slot_id = f"{slot['start']}-{slot['end']}" *)
SlotKey(slot) == <<slot.start, slot.end>>

(* used_slots.add(slot_id) *)
MarkUsedNot(used, slot) == used
MarkUsed(used, slot) == used \cup {SlotKey(slot)}

(* The last slot of `candidates` whose slot_id is not used; <<>> if none. *)
LastFree(candidates, used) ==
  LET free == {i \in DOMAIN candidates : SlotKey(candidates[i]) \notin used}
  IN IF free = {} THEN <<>>
     ELSE <<candidates[CHOOSE i \in free : \A j \in free : i >= j]>>

(* The first slot of `candidates` whose slot_id is not used; <<>> if none. *)
FirstFree(candidates, used) ==
  LET free == {i \in DOMAIN candidates : SlotKey(candidates[i]) \notin used}
  IN IF free = {} THEN <<>>
     ELSE <<candidates[CHOOSE i \in free : \A j \in free : i <= j]>>

NewTimeSlot(task, blueprint_id, slot) ==
  [blueprint_id |-> blueprint_id, category_id |-> task.category_id,
   title |-> task.title, start_time |-> ParseTime(slot.start),
   end_time |-> ParseTime(slot.end), goal_id |-> task.goal_id]

(* The loop of allocate_time_slots from task i on: the TimeSlot table.     *)
(* The rows are inserted in the order they were added, so each gets the    *)
(* key after the one before it: `id` is the key of the next row.           *)
RECURSIVE AllocateFrom(_, _, _, _, _, _)
AllocateFrom(sorted, i, used, blueprint_id, tbl, id) ==
  IF i > Len(sorted) THEN tbl
  ELSE LET task == sorted[i]
           preferred_slots ==
             IF task.category \in DOMAIN category_time_preferences
               THEN category_time_preferences[task.category]
               ELSE available_slots
           pref == FirstFree(preferred_slots, used)
           found == IF pref # <<>> THEN pref ELSE FirstFree(available_slots, used)
       IN IF found = <<>>
            THEN AllocateFrom(sorted, i + 1, used, blueprint_id, tbl, id)
            ELSE AllocateFrom(sorted, i + 1, MarkUsed(used, found[1]), blueprint_id,
                              Insert(tbl, id, NewTimeSlot(task, blueprint_id, found[1])),
                              id + 1)

allocate_time_slots(day_tasks, blueprint_id, tbl) ==
  AllocateFrom(StableSort(day_tasks, [i \in DOMAIN day_tasks |-> <<day_tasks[i].priority>>]),
               1, {}, blueprint_id, tbl, NextId(tbl))

(* TimeSlot.query.delete(); Blueprint.query.delete() *)
GenDeleteSlotsOnly(S) == [S EXCEPT !.slots = EmptyTable]
GenDeleteAll(S) == [S EXCEPT !.slots = EmptyTable, !.blueprints = EmptyTable]

(* The Blueprints of the first k days, added and flushed in turn. *)
RECURSIVE GenBlueprints(_, _)
GenBlueprints(S, k) ==
  IF k = 0 THEN S
  ELSE LET P == GenBlueprints(S, k - 1)
       IN [P EXCEPT !.blueprints =
             Insert(@, NextId(@), [name |-> DAYS[k] \o " Schedule",
                                   day_of_week |-> DAYS[k], is_active |-> TRUE])]

(* day_blueprints[day].id *)
DayBlueprintId(S, day) ==
  CHOOSE b \in Ids(S.blueprints) : S.blueprints[b].day_of_week = day

(* The scheduling loop over the first k days. *)
RECURSIVE GenAllocate(_, _, _, _)
GenAllocate(S, byCategory, k, clock) ==
  IF k = 0 THEN S
  ELSE LET P == GenAllocate(S, byCategory, k - 1, clock)
       IN [P EXCEPT !.slots =
             allocate_time_slots(balance_day_tasks(day_tasks_of(byCategory, DAYS[k], clock)),
                                 DayBlueprintId(P, DAYS[k]), @)]

(* Where generate_weekly_schedule raises: nowhere ("none"), in the deletes, *)
(* at the flush of day `day`'s Blueprint, while scheduling day `day`, or   *)
(* in the commit.                                                          *)
NoFault == [at |-> "none", day |-> 0]
GenFaults ==
  {NoFault, [at |-> "delete", day |-> 0], [at |-> "commit", day |-> 0]}
    \cup {[at |-> a, day |-> d] : a \in {"blueprint", "allocate"}, d \in 1..Len(DAYS)}

(* The session's working copy when generate_weekly_schedule leaves its try *)
(* block.                                                                  *)
GenerateSession(S, clock, fault) ==
  LET cleared == GenDeleteAll(S)
      Planned(k) == GenAllocate(GenBlueprints(cleared, Len(DAYS)), tasks_by_category(S), k, clock)
  IN CASE fault.at = "delete" -> [S EXCEPT !.slots = EmptyTable]
       [] fault.at = "blueprint" -> GenBlueprints(cleared, fault.day - 1)
       [] fault.at = "allocate" -> Planned(fault.day - 1)
       [] OTHER -> Planned(Len(DAYS))

(* except Exception: db.session.rollback() *)
GenRollbackKeeps(committed, session) == session
GenRollback(committed, session) == committed

(* generate_weekly_schedule(): what it returns and the store it leaves. *)
generate_weekly_schedule(S, clock, fault) ==
  LET session == GenerateSession(S, clock, fault)
  IN IF fault.at = "none"
       THEN [ret |-> TRUE, store |-> session]
       ELSE [ret |-> FALSE, store |-> GenRollback(S, session)]

Result(op, arg, ret, faulted) ==
  [op |-> op, arg |-> arg, ret |-> ret, fault |-> faulted, raised |-> FALSE]

Generate(fault) ==
  \E r \in {generate_weekly_schedule(Store, now, fault)} :
     /\ Commit(r.store)
     /\ last' = Result("generate", 0, r.ret, fault.at # "none")
     /\ UNCHANGED now

-----------------------------------------------------------------------------
(* The generator on its own: the store is drawn from a family of task sets *)
(* and schedules, and generate_weekly_schedule is applied to it.           *)

MaxClass11 == 2
MaxUnknown == 6

TaskTitles ==
  <<"t1", "t2", "t3", "t4", "t5", "t6", "t7", "t8", "t9", "t10", "t11", "t12",
    "t13", "t14", "t15", "t16", "t17", "t18", "t19", "t20", "t21", "t22", "t23", "t24",
    "t25", "t26">>
OtherNames ==
  <<"Other 1", "Other 2", "Other 3", "Other 4", "Other 5", "Other 6", "Other 7",
    "Other 8", "Other 9", "Other 10", "Other 11", "Other 12", "Other 13", "Other 14",
    "Other 15", "Other 16", "Other 17", "Other 18", "Other 19", "Other 20">>

PrioritySeqs(n) == UNION {[1..k -> {1, 2, 3}] : k \in 0..n}
AIChoices == {<<>>, <<1, 2>>, <<2, 1>>, <<3, 3>>}

NewTask(title, goal_id, deadline, priority) ==
  [title |-> title, goal_id |-> goal_id, deadline |-> deadline, priority |-> priority,
   completed |-> FALSE, completion_date |-> None, recurrence_type |-> None,
   recurrence_value |-> None, parent_task_id |-> NoId]

(* A store with the categories "Class 11", "AI Tools" and n categories the *)
(* fixed tables do not know, one goal per category, the Class 11 tasks     *)
(* with the priorities c11, the AI Tools tasks with the priorities ai, and *)
(* one task per unknown category (Medium for every fourth, else High).     *)
(* With `dated`, task k is due at 09:00 today, tomorrow or the day after.  *)
TaskSetStore(c11, ai, n, dated, clock) ==
  LET names == <<"Class 11", "AI Tools">> \o SubSeq(OtherNames, 1, n)
      plan == [i \in 1..Len(c11) |-> <<1, c11[i]>>]
                \o [i \in 1..Len(ai) |-> <<2, ai[i]>>]
                \o [j \in 1..n |-> <<2 + j, IF j % 4 = 0 THEN 2 ELSE 1>>]
      Deadline(k) == IF dated THEN Some(At(DateOf(clock) + (k % 3), 9, 0)) ELSE None
  IN [categories |-> [i \in 1..Len(names) |-> [name |-> names[i]]],
      goals |-> [i \in 1..Len(names) |-> [title |-> names[i], category_id |-> i]],
      tasks |-> [k \in 1..Len(plan) |->
                   NewTask(TaskTitles[k], plan[k][1], Deadline(k), plan[k][2])],
      reminders |-> EmptyTable,
      blueprints |-> EmptyTable,
      slots |-> EmptyTable]

(* A schedule made by hand: two Blueprints for Monday, a default one with  *)
(* no day, and two overlapping TimeSlots under the default one.            *)
ManualSchedule(S) ==
  [S EXCEPT
     !.blueprints =
       (1 :> [name |-> "Plan", day_of_week |-> "Monday", is_active |-> TRUE])
         @@ (2 :> [name |-> "Plan", day_of_week |-> "Monday", is_active |-> TRUE])
         @@ (4 :> [name |-> "Plan", day_of_week |-> NoDay, is_active |-> TRUE]),
     !.slots = (5 :> [blueprint_id |-> 4, category_id |-> 1, title |-> "manual",
                      start_time |-> 9 * 60, end_time |-> 10 * 60 + 30, goal_id |-> NoId])
                 @@ (9 :> [blueprint_id |-> 4, category_id |-> 1, title |-> "manual",
                           start_time |-> 10 * 60, end_time |-> 11 * 60, goal_id |-> 1])]

PreSchedules == {"empty", "manual", "generated"}

WithSchedule(S, pre, clock) ==
  CASE pre = "manual" -> ManualSchedule(S)
    [] pre = "generated" -> generate_weekly_schedule(S, clock, NoFault).store
    [] OTHER -> S

InitGen ==
  /\ now = At(0, 10, 0)
  /\ \E c11 \in PrioritySeqs(MaxClass11), ai \in AIChoices, n \in 0..MaxUnknown,
        dated \in BOOLEAN, pre \in PreSchedules :
       \E S \in {WithSchedule(TaskSetStore(c11, ai, n, dated, now), pre, now)} :
          /\ categories = S.categories
          /\ goals = S.goals
          /\ tasks = S.tasks
          /\ reminders = S.reminders
          /\ blueprints = S.blueprints
          /\ slots = S.slots
  /\ dirty = EmptyTable
  /\ last = Result("init", 0, TRUE, FALSE)
  /\ calls = 0

NextGen == (\E fault \in GenFaults : Generate(fault)) /\ UNCHANGED calls

SpecGen == InitGen /\ [][NextGen]_vars

-----------------------------------------------------------------------------
(* Properties of generate_weekly_schedule *)

Generated == last.op = "generate" /\ last.ret

BlueprintsOfDay(day) == {b \in Ids(blueprints) : blueprints[b].day_of_week = day}
SlotsOf(b) == {s \in Ids(slots) : slots[s].blueprint_id = b}
CategoryNameOf(s) == categories[slots[s].category_id].name

(* C1: after generate_weekly_schedule() returns true, whatever Blueprints  *)
(* the store held before, it holds exactly seven Blueprints, one for each  *)
(* weekday Monday..Sunday, and no other.                                   *)
C1_GenerationTotality ==
  Generated =>
    /\ Cardinality(Ids(blueprints)) = Len(DAYS)
    /\ \A d \in DOMAIN DAYS : Cardinality(BlueprintsOfDay(DAYS[d])) = 1

C1_Witness ==
  /\ Generated
  /\ Cardinality(Ids(blueprints)) = Len(DAYS)
  /\ slots # EmptyTable

Overlap(a, b) == a.start_time < b.end_time /\ b.start_time < a.end_time

(* C2: after generate_weekly_schedule() returns true, no two TimeSlots of  *)
(* one Blueprint overlap in time.                                          *)
C2_NoOverlap ==
  Generated =>
    \A b \in Ids(blueprints) : \A s1, s2 \in SlotsOf(b) :
      s1 # s2 => ~Overlap(slots[s1], slots[s2])

(* A generated day on which a Class 11 task fell back from the morning     *)
(* band to the full catalog.                                               *)
C2_Witness ==
  /\ Generated
  /\ \E s \in Ids(slots) :
       CategoryNameOf(s) = "Class 11" /\ slots[s].start_time >= 12 * 60

(* The quota the spec gives a category: max(1, ceil(8 * percentage)). *)
SpecQuota(name) ==
  IF name \in DOMAIN CATEGORY_BALANCE
    THEN Max(1, (MaxDayTasks * CATEGORY_BALANCE[name] + 99) \div 100)
    ELSE 1

(* C3: for every generated day and every category, the number of the day's *)
(* TimeSlots of that category does not exceed the category's quota.        *)
C3_CategoryQuota ==
  Generated =>
    \A b \in Ids(blueprints) : \A c \in Ids(categories) :
      Cardinality({s \in SlotsOf(b) : slots[s].category_id = c})
        <= SpecQuota(categories[c].name)

(* A generated Monday on which AI Tools, with two incomplete tasks, got    *)
(* exactly its quota.                                                      *)
C3_Witness ==
  /\ Generated
  /\ \E c \in Ids(categories) :
       /\ categories[c].name = "AI Tools"
       /\ Cardinality({t \in Ids(tasks) : ~tasks[t].completed
                          /\ goals[tasks[t].goal_id].category_id = c}) = 2
       /\ \E b \in BlueprintsOfDay("Monday") :
            Cardinality({s \in SlotsOf(b) : slots[s].category_id = c}) = SpecQuota("AI Tools")

(* C7: when generate_weekly_schedule() hits an exception it returns false  *)
(* and the stored Blueprints and TimeSlots are those before the call.      *)
C7_GenerateRollback ==
  [][(last'.op = "generate" /\ last'.fault)
       => (~last'.ret /\ blueprints' = blueprints /\ slots' = slots)]_vars

(* A failed generation over a schedule that existed before the call. *)
C7_Witness ==
  /\ last.op = "generate" /\ last.fault /\ ~last.ret
  /\ blueprints # EmptyTable
  /\ slots # EmptyTable

-----------------------------------------------------------------------------
(* reminder_scheduler.py and task_service.py *)

(* create_reminder with a message given: one Reminder added and committed. *)
create_reminder(S, task_id, reminder_time) ==
  [S EXCEPT !.reminders =
     Insert(@, NextId(@),
            [task_id |-> task_id, reminder_time |-> reminder_time, triggered |-> FALSE])]

(* create_default_reminders: one day and one hour before the deadline,     *)
(* each only if still ahead of the clock.                                  *)
create_default_reminders(S, task_id, clock) ==
  LET deadline == S.tasks[task_id].deadline
      one_day_before == deadline[1] - MinutesPerDay
      one_hour_before == deadline[1] - 60
      S1 == IF one_day_before > clock THEN create_reminder(S, task_id, one_day_before) ELSE S
  IN IF deadline = None THEN S
     ELSE IF one_hour_before > clock THEN create_reminder(S1, task_id, one_hour_before)
     ELSE S1

(* create_task: args = [title, goal_id, deadline, priority, recurrence_type, *)
(* recurrence_value, parent_task_id].  ret is the new Task's id, NoId for  *)
(* None.                                                                   *)
create_task(S, args, clock) ==
  IF args.goal_id \notin Ids(S.goals) THEN [ret |-> NoId, store |-> S]
  ELSE LET id == NextId(S.tasks)
           row == [NewTask(args.title, args.goal_id, args.deadline, args.priority)
                     EXCEPT !.recurrence_type = args.recurrence_type,
                            !.recurrence_value = args.recurrence_value,
                            !.parent_task_id = args.parent_task_id]
           S1 == [S EXCEPT !.tasks = Insert(@, id, row)]
       IN [ret |-> id,
           store |-> IF args.deadline # None
                       THEN create_default_reminders(S1, id, clock) ELSE S1]

(* if completed is not None: the completed flag and completion_date. *)
CompletionDateKept(old, completed, clock) == old.completion_date
CompletionDate(old, completed, clock) ==
  IF completed /\ ~old.completed THEN Some(clock)
  ELSE IF ~completed /\ old.completed THEN None
  ELSE old.completion_date

(* update_task: every field of args is None (not given) or Some(value).    *)
(* ret is the Task's id, NoId for None.                                    *)
update_task(S, task_id, args, clock) ==
  IF task_id \notin Ids(S.tasks) THEN [ret |-> NoId, store |-> S]
  ELSE
    LET old == S.tasks[task_id]
        Given(f) == args[f] # None
        new ==
          [title |-> IF Given("title") THEN args.title[1] ELSE old.title,
           goal_id |-> IF Given("goal_id") /\ args.goal_id[1] \in Ids(S.goals)
                         THEN args.goal_id[1] ELSE old.goal_id,
           deadline |-> IF Given("deadline") THEN args.deadline ELSE old.deadline,
           priority |-> IF Given("priority") THEN args.priority[1] ELSE old.priority,
           completed |-> IF Given("completed") THEN args.completed[1] ELSE old.completed,
           completion_date |-> IF Given("completed")
                                 THEN CompletionDate(old, args.completed[1], clock)
                                 ELSE old.completion_date,
           recurrence_type |-> IF Given("recurrence_type")
                                 THEN args.recurrence_type ELSE old.recurrence_type,
           recurrence_value |-> IF Given("recurrence_value")
                                  THEN args.recurrence_value ELSE old.recurrence_value,
           parent_task_id |-> IF Given("parent_task_id") /\ args.parent_task_id[1] # task_id
                                THEN args.parent_task_id[1] ELSE old.parent_task_id]
        S1 == [S EXCEPT !.tasks[task_id] = new]
        \* a changed deadline: the task's reminders are marked for deletion and
        \* new ones created; the flush at create_reminder's commit inserts
        \* before it deletes
        mine == {r \in Ids(S.reminders) : S.reminders[r].task_id = task_id}
        one_day_before == new.deadline[1] - MinutesPerDay
        one_hour_before == new.deadline[1] - 60
        Row(t) == [task_id |-> task_id, reminder_time |-> t, triggered |-> FALSE]
        added == IF one_day_before > clock \/ one_hour_before > clock
                   THEN Insert(S.reminders, NextId(S.reminders),
                               Row(IF one_day_before > clock
                                     THEN one_day_before ELSE one_hour_before))
                   ELSE S.reminders
        S2 == [S1 EXCEPT !.reminders = Delete(added, mine)]
        S3 == IF one_day_before > clock /\ one_hour_before > clock
                THEN create_reminder(S2, task_id, one_hour_before) ELSE S2
    IN [ret |-> task_id,
        store |-> IF Given("deadline") /\ args.deadline # old.deadline THEN S3 ELSE S1]

NoUpdate ==
  [title |-> None, goal_id |-> None, deadline |-> None, priority |-> None,
   completed |-> None, recurrence_type |-> None, recurrence_value |-> None,
   parent_task_id |-> None]

mark_task_completed(S, task_id, clock) ==
  update_task(S, task_id, [NoUpdate EXCEPT !.completed = Some(TRUE)], clock)
mark_task_incomplete(S, task_id, clock) ==
  update_task(S, task_id, [NoUpdate EXCEPT !.completed = Some(FALSE)], clock)

(* delete_task: the Task goes with its Reminders (cascade); its subtasks   *)
(* lose their parent.                                                      *)
delete_task(S, task_id) ==
  IF task_id \notin Ids(S.tasks) THEN [ret |-> FALSE, store |-> S]
  ELSE [ret |-> TRUE,
        store |->
          [S EXCEPT
             !.tasks = [i \in Ids(S.tasks) \ {task_id} |->
                          IF S.tasks[i].parent_task_id = task_id
                            THEN [S.tasks[i] EXCEPT !.parent_task_id = NoId]
                            ELSE S.tasks[i]],
             !.reminders = Delete(@, {r \in Ids(S.reminders) :
                                        S.reminders[r].task_id = task_id})]]

(* calculate_next_date *)
calculate_next_date(base_date, recurrence_type, recurrence_value) ==
  CASE recurrence_type = "weekly" -> base_date + 7 * recurrence_value * MinutesPerDay
    [] recurrence_type = "monthly" -> base_date + 30 * recurrence_value * MinutesPerDay
    [] recurrence_type = "yearly" -> base_date + 365 * recurrence_value * MinutesPerDay
    [] OTHER -> base_date + recurrence_value * MinutesPerDay

should_create_recurrence(task, today) ==
  /\ task.completion_date # None
  /\ calculate_next_date(task.completion_date[1], task.recurrence_type[1],
                         task.recurrence_value[1]) <= today

(* The loop of handle_recurring_tasks over the completed recurring tasks   *)
(* found by the query, from the i-th on.                                   *)
RECURSIVE RecurFrom(_, _, _, _, _)
RecurFrom(found, i, today, source, tbl) ==
  IF i > Len(found) THEN tbl
  ELSE LET task == source[found[i]]
           row == [NewTask(task.title, task.goal_id,
                           IF task.deadline = None THEN None
                           ELSE Some(calculate_next_date(task.deadline[1],
                                                         task.recurrence_type[1],
                                                         task.recurrence_value[1])),
                           task.priority)
                     EXCEPT !.recurrence_type = task.recurrence_type,
                            !.recurrence_value = task.recurrence_value,
                            !.parent_task_id = found[i]]
       IN IF should_create_recurrence(task, today)
            THEN RecurFrom(found, i + 1, today, source, Insert(tbl, NextId(tbl), row))
            ELSE RecurFrom(found, i + 1, today, source, tbl)

handle_recurring_tasks(S, clock) ==
  LET found == IdSeq({t \in Ids(S.tasks) :
                        /\ S.tasks[t].completed
                        /\ S.tasks[t].recurrence_type # None
                        /\ S.tasks[t].recurrence_value # None})
  IN [S EXCEPT !.tasks = RecurFrom(found, 1, Midnight(clock), S.tasks, @)]

-----------------------------------------------------------------------------
(* schedule_engine.py: the operations on one TimeSlot or one Task *)

(* Task.query.filter_by(goal_id=..., title=...).first(): the matching Task *)
(* of lowest id, NoId when there is none.                                  *)
FindTaskNever(tbl, goal_id, title) == NoId
FindTask(tbl, goal_id, title) ==
  LET found == {t \in Ids(tbl) : tbl[t].goal_id = goal_id /\ tbl[t].title = title}
  IN IF found = {} THEN NoId ELSE CHOOSE t \in found : \A u \in found : t <= u

(* The two assignments of mark_slot_complete. *)
SlotCompletionFlagOnly(task, clock) == [task EXCEPT !.completed = TRUE]
SlotCompletion(task, clock) ==
  [task EXCEPT !.completed = TRUE, !.completion_date = Some(clock)]

Outcome(ret, store, raised) == [ret |-> ret, store |-> store, raised |-> raised]

(* mark_slot_complete.  fault names the statement at which the store       *)
(* raises: "query" (either query) or "commit".                             *)
mark_slot_complete(S, slot_id, clock, fault) ==
  IF fault = "query" THEN Outcome(FALSE, S, TRUE)
  ELSE IF slot_id \notin Ids(S.slots) THEN Outcome(FALSE, S, FALSE)
  ELSE LET time_slot == S.slots[slot_id]
           task == FindTask(S.tasks, time_slot.goal_id, time_slot.title)
       IN IF task = NoId THEN Outcome(TRUE, S, FALSE)
          ELSE IF fault = "commit" THEN Outcome(FALSE, S, TRUE)
          ELSE Outcome(TRUE,
                       [S EXCEPT !.tasks[task] = SlotCompletion(@, clock)], FALSE)

(* datetime.combine(tomorrow, time(hour=17, minute=0)) *)
TomorrowSame(clock) == At(DateOf(clock), 17, 0)
Tomorrow(clock) == At(DateOf(clock) + 1, 17, 0)

(* The faults of the regeneration that snooze_task and handle_missed_task  *)
(* trigger: its first and its last statement.                              *)
RegenFaults == {f \in GenFaults : f.at \in {"delete", "commit"}}

OpFault(at) == [at |-> at, regen |-> NoFault]
MissedFaults ==
  {OpFault(a) : a \in {"none", "query", "commit"}}
    \cup {[at |-> "regenerate", regen |-> g] : g \in RegenFaults}
SnoozeFaults ==
  {OpFault(a) : a \in {"none", "query", "commit_deadline", "commit_delete"}}
    \cup {[at |-> "regenerate", regen |-> g] : g \in RegenFaults}

(* regenerate_schedule() called with its result dropped. *)
Regenerate(S, clock, fault) ==
  Outcome(TRUE, generate_weekly_schedule(S, clock, fault.regen).store,
          fault.at = "regenerate")

(* handle_missed_task *)
handle_missed_task(S, task_id, clock, fault) ==
  IF fault.at = "query" THEN Outcome(FALSE, S, TRUE)
  ELSE IF task_id \notin Ids(S.tasks) THEN Outcome(FALSE, S, FALSE)
  ELSE LET task == S.tasks[task_id]
           missed == task.deadline # None /\ task.deadline[1] < clock
           S1 == [S EXCEPT !.tasks[task_id].deadline = Some(Tomorrow(clock))]
       IN IF ~missed THEN Regenerate(S, clock, fault)
          ELSE IF fault.at = "commit" THEN Outcome(FALSE, S, TRUE)
          ELSE Regenerate(S1, clock, fault)

(* task.deadline and task.deadline.date() <= today *)
DueAnyDay(deadline, clock) == deadline # None
DueToday(deadline, clock) ==
  deadline # None /\ DateOf(deadline[1]) <= DateOf(clock)

(* snooze_task *)
snooze_task(S, slot_id, clock, fault) ==
  IF fault.at = "query" THEN Outcome(FALSE, S, TRUE)
  ELSE IF slot_id \notin Ids(S.slots) THEN Outcome(FALSE, S, FALSE)
  ELSE LET time_slot == S.slots[slot_id]
           task == FindTask(S.tasks, time_slot.goal_id, time_slot.title)
           due == task # NoId /\ DueToday(S.tasks[task].deadline, clock)
           S1 == IF due THEN [S EXCEPT !.tasks[task].deadline = Some(Tomorrow(clock))]
                 ELSE S
           S2 == [S1 EXCEPT !.slots = Delete(@, {slot_id})]
       IN IF due /\ fault.at = "commit_deadline" THEN Outcome(FALSE, S, TRUE)
          ELSE IF fault.at = "commit_delete" THEN Outcome(FALSE, S1, TRUE)
          ELSE Regenerate(S2, clock, fault)

-----------------------------------------------------------------------------
(* blueprint_import_service.py *)

TIME_BLOCKS ==
  ("morning" :> [start |-> <<6, 0>>, end |-> <<12, 0>>])
    @@ ("afternoon" :> [start |-> <<12, 0>>, end |-> <<17, 0>>])
    @@ ("evening" :> [start |-> <<17, 0>>, end |-> <<22, 0>>])

PRIORITY_MAP == ("high" :> 1) @@ ("medium" :> 2) @@ ("low" :> 3)

day_to_num ==
  ("Mon" :> 0) @@ ("Tue" :> 1) @@ ("Wed" :> 2) @@ ("Thu" :> 3) @@ ("Fri" :> 4)
    @@ ("Sat" :> 5) @@ ("Sun" :> 6)

(* dict.get(key, default) *)
Get(dict, key, default) == IF key \in DOMAIN dict THEN dict[key] ELSE default

(* calculate_deadline.  An activity is [name, importance, preferred_time:  *)
(* None or Some(string); days: a sequence of strings].                     *)
calculate_deadline(task_data, clock) ==
  LET preferred_day_nums ==
        {day_to_num[d] : d \in {x \in SeqToSet(task_data.days) : x \in DOMAIN day_to_num}}
      hits == {k \in 1..7 : (WeekdayNum(clock) + k) % 7 \in preferred_day_nums}
      days_ahead == IF hits = {} THEN 3 ELSE CHOOSE k \in hits : \A j \in hits : k <= j
      time_block == IF task_data.preferred_time = None THEN TIME_BLOCKS["afternoon"]
                    ELSE Get(TIME_BLOCKS, task_data.preferred_time[1], TIME_BLOCKS["afternoon"])
  IN Midnight(clock) + days_ahead * MinutesPerDay + ParseTime(time_block.end)

FindCategory(tbl, name) ==
  LET found == {c \in Ids(tbl) : tbl[c].name = name}
  IN IF found = {} THEN NoId ELSE CHOOSE c \in found : \A u \in found : c <= u

FindGoal(tbl, title, category_id) ==
  LET found == {g \in Ids(tbl) : tbl[g].title = title /\ tbl[g].category_id = category_id}
  IN IF found = {} THEN NoId ELSE CHOOSE g \in found : \A u \in found : g <= u

(* The loop over one category's activities, from the i-th on, in the       *)
(* session S.  raised: a KeyError on "name" or "importance".               *)
RECURSIVE ImportTasks(_, _, _, _, _)
ImportTasks(S, goal_id, acts, i, clock) ==
  IF i > Len(acts) THEN [store |-> S, raised |-> FALSE]
  ELSE LET task_data == acts[i]
       IN IF task_data.name = None THEN [store |-> S, raised |-> TRUE]
          ELSE IF FindTask(S.tasks, goal_id, task_data.name[1]) # NoId
            THEN ImportTasks(S, goal_id, acts, i + 1, clock)
          ELSE IF task_data.importance = None THEN [store |-> S, raised |-> TRUE]
          ELSE ImportTasks(
                 [S EXCEPT !.tasks =
                    Insert(@, NextId(@),
                           NewTask(task_data.name[1], goal_id,
                                   Some(calculate_deadline(task_data, clock)),
                                   Get(PRIORITY_MAP, task_data.importance[1], 2)))],
                 goal_id, acts, i + 1, clock)

(* The loop over the document's categories, from the k-th on.  A document  *)
(* is a sequence of [name, activities] with distinct names.                *)
RECURSIVE ImportCategories(_, _, _, _)
ImportCategories(S, doc, k, clock) ==
  IF k > Len(doc) THEN [store |-> S, raised |-> FALSE]
  ELSE LET category_name == doc[k].name
           had == FindCategory(S.categories, category_name)
           category == IF had = NoId THEN NextId(S.categories) ELSE had
           S1 == IF had = NoId
                   THEN [S EXCEPT !.categories = Insert(@, category, [name |-> category_name])]
                   ELSE S
           goal_name == category_name \o " Master Plan"
           held == FindGoal(S1.goals, goal_name, category)
           goal == IF held = NoId THEN NextId(S1.goals) ELSE held
           S2 == IF held = NoId
                   THEN [S1 EXCEPT !.goals =
                           Insert(@, goal, [title |-> goal_name, category_id |-> category])]
                   ELSE S1
           done == ImportTasks(S2, goal, doc[k].activities, 1, clock)
       IN IF done.raised THEN done ELSE ImportCategories(done.store, doc, k + 1, clock)

ImportRollbackKeeps(committed, session) == session
ImportRollback(committed, session) == committed

(* import_blueprint_to_database.  fault: the commit raises. *)
import_blueprint_to_database(S, blueprint_data, clock, fault) ==
  LET done == ImportCategories(S, blueprint_data, 1, clock)
  IN IF done.raised \/ fault
       THEN Outcome(FALSE, ImportRollback(S, done.store), fault /\ ~done.raised)
       ELSE Outcome(TRUE, done.store, FALSE)

-----------------------------------------------------------------------------
(* The application over time: the blueprint import, the task service, the *)
(* schedule engine and the midnight job, on a clock that advances by days. *)

MaxCalls == 3

Activity(name, importance, days, preferred_time) ==
  [name |-> name, importance |-> importance, days |-> days,
   preferred_time |-> preferred_time]

(* Blueprint documents.  1: the start-up's file, with the same activity    *)
(* name twice in one category.  2: an activity without a name after a     *)
(* category, a goal and a task were added.  3: an activity without an      *)
(* importance.  4: an importance, a day and a time block the tables do not *)
(* know.  5: no category.                                                  *)
Docs ==
  << << [name |-> "Class 11",
         activities |-> << Activity(Some("Physics"), Some("high"), <<"Mon", "Wed">>,
                                    Some("morning")),
                           Activity(Some("Physics"), Some("medium"), <<>>, None) >>],
        [name |-> "AI Tools",
         activities |-> << Activity(Some("Replit"), Some("medium"), <<"Thu">>,
                                    Some("evening")) >>] >>,
     << [name |-> "Freelancing",
         activities |-> << Activity(Some("Portfolio"), Some("high"), <<"Sat">>,
                                    Some("afternoon")),
                           Activity(None, Some("high"), <<>>, None) >>] >>,
     << [name |-> "Certifications",
         activities |-> << Activity(Some("AWS"), None, <<"Mon">>, Some("afternoon")) >>] >>,
     << [name |-> "Hobby",
         activities |-> << Activity(Some("Guitar"), Some("urgent"), <<"Xyz">>,
                                    Some("night")) >>] >>,
     << >> >>

EmptyStore ==
  [categories |-> EmptyTable, goals |-> EmptyTable, tasks |-> EmptyTable,
   reminders |-> EmptyTable, blueprints |-> EmptyTable, slots |-> EmptyTable]

(* The start-up: the blueprint file is imported and the schedule          *)
(* generated.                                                              *)
StartUp(clock) ==
  generate_weekly_schedule(
    import_blueprint_to_database(EmptyStore, Docs[1], clock, FALSE).store,
    clock, NoFault).store

(* The application was started on Monday 00:00; it is Wednesday 00:00, the *)
(* day on which the first imported task is due.                            *)
Init ==
  /\ now = At(2, 0, 0)
  /\ \E S \in {StartUp(At(0, 0, 0))} :
       /\ categories = S.categories
       /\ goals = S.goals
       /\ tasks = S.tasks
       /\ reminders = S.reminders
       /\ blueprints = S.blueprints
       /\ slots = S.slots
  /\ dirty = EmptyTable
  /\ last = Result("init", 0, TRUE, FALSE)
  /\ calls = 0

Apply(op, arg, r) ==
  /\ Commit(r.store)
  /\ last' = Result(op, arg, r.ret, r.raised)
  /\ UNCHANGED now

Import(d, fault) ==
  \E r \in {import_blueprint_to_database(Store, Docs[d], now, fault)} :
    Apply("import", d, r)

(* Arguments of create_task, as the task route passes them: a task of no   *)
(* deadline that shares its title with an imported one, a daily task that  *)
(* was due on Tuesday, a task for a goal that does not exist.              *)
CreateArgs ==
  {[title |-> "Physics", goal_id |-> 1, deadline |-> None, priority |-> 1,
    recurrence_type |-> None, recurrence_value |-> None, parent_task_id |-> NoId],
   [title |-> "Maths", goal_id |-> 1, deadline |-> Some(At(1, 9, 0)), priority |-> 2,
    recurrence_type |-> Some("daily"), recurrence_value |-> Some(1),
    parent_task_id |-> NoId],
   [title |-> "Maths", goal_id |-> 3, deadline |-> None, priority |-> 1,
    recurrence_type |-> None, recurrence_value |-> None, parent_task_id |-> NoId]}

CreateTask(args) ==
  \E r \in {create_task(Store, args, now)} :
    /\ Commit(r.store)
    /\ last' = Result("create_task", r.ret, r.ret # NoId, FALSE)
    /\ UNCHANGED now

(* Arguments of update_task: the task is done, due on Thursday 09:00 and   *)
(* daily from now on; the task is reopened with Low priority.              *)
UpdateArgs ==
  {[NoUpdate EXCEPT !.completed = Some(TRUE), !.deadline = Some(At(3, 9, 0)),
                    !.recurrence_type = Some("daily"), !.recurrence_value = Some(1)],
   [NoUpdate EXCEPT !.completed = Some(FALSE), !.priority = Some(3)]}

TaskIds == Ids(tasks) \cup {NextId(tasks)}
(* The slot ids the schedule routes are called with: the first MaxSlotArg  *)
(* ids and one that no TimeSlot has.                                       *)
MaxSlotArg == 2
SlotIds == {s \in Ids(slots) : s <= MaxSlotArg} \cup {NextId(slots)}

UpdateTask(task_id, args) ==
  \E r \in {update_task(Store, task_id, args, now)} :
    /\ Commit(r.store)
    /\ last' = Result("update_task", task_id, r.ret # NoId, FALSE)
    /\ UNCHANGED now

MarkTaskCompleted(task_id) ==
  \E r \in {mark_task_completed(Store, task_id, now)} :
    /\ Commit(r.store)
    /\ last' = Result("mark_task_completed", task_id, r.ret # NoId, FALSE)
    /\ UNCHANGED now

MarkTaskIncomplete(task_id) ==
  \E r \in {mark_task_incomplete(Store, task_id, now)} :
    /\ Commit(r.store)
    /\ last' = Result("mark_task_incomplete", task_id, r.ret # NoId, FALSE)
    /\ UNCHANGED now

DeleteTask(task_id) ==
  \E r \in {delete_task(Store, task_id)} :
    /\ Commit(r.store)
    /\ last' = Result("delete_task", task_id, r.ret, FALSE)
    /\ UNCHANGED now

MarkSlotComplete(slot_id, fault) ==
  \E r \in {mark_slot_complete(Store, slot_id, now, fault)} :
    Apply("mark_slot_complete", slot_id, r)

HandleMissedTask(task_id, fault) ==
  \E r \in {handle_missed_task(Store, task_id, now, fault)} :
    Apply("handle_missed_task", task_id, r)

SnoozeTask(slot_id, fault) ==
  \E r \in {snooze_task(Store, slot_id, now, fault)} :
    Apply("snooze_task", slot_id, r)

(* The midnight job. *)
HandleRecurringTasks ==
  /\ now = Midnight(now)
  /\ Commit(handle_recurring_tasks(Store, now))
  /\ last' = Result("handle_recurring_tasks", 0, TRUE, FALSE)
  /\ UNCHANGED now

(* A day passes. *)
Tick ==
  /\ now' = now + MinutesPerDay
  /\ last' = Result("tick", 0, TRUE, FALSE)
  /\ UNCHANGED <<categories, goals, tasks, reminders, blueprints, slots, dirty>>

Call ==
  \/ \E d \in {1, 2}, fault \in BOOLEAN : Import(d, fault)
  \/ \E args \in CreateArgs : CreateTask(args)
  \/ \E task_id \in TaskIds, args \in UpdateArgs : UpdateTask(task_id, args)
  \/ \E task_id \in TaskIds : MarkTaskCompleted(task_id)
  \/ \E task_id \in TaskIds : MarkTaskIncomplete(task_id)
  \/ \E task_id \in TaskIds : DeleteTask(task_id)
  \/ \E slot_id \in SlotIds, fault \in {"none", "query", "commit"} :
       MarkSlotComplete(slot_id, fault)
  \/ \E task_id \in TaskIds, fault \in MissedFaults : HandleMissedTask(task_id, fault)
  \/ \E slot_id \in SlotIds, fault \in SnoozeFaults : SnoozeTask(slot_id, fault)
  \/ \E fault \in RegenFaults \cup {NoFault} : Generate(fault)
  \/ HandleRecurringTasks
  \/ Tick

(* Runs of at most MaxCalls calls. *)
Next == calls < MaxCalls /\ calls' = calls + 1 /\ Call

Spec == Init /\ [][Next]_vars

-----------------------------------------------------------------------------
(* The import on its own: any sequence of imports of the documents, over a *)
(* store that is empty, holds a category alone, or holds the first         *)
(* document's content already.                                             *)

PreStores ==
  {EmptyStore,
   [EmptyStore EXCEPT !.categories = (1 :> [name |-> "Hobby"]) @@ (2 :> [name |-> "Class 11"])],
   import_blueprint_to_database(EmptyStore, Docs[1], At(0, 0, 0), FALSE).store}

InitImport ==
  /\ now \in {At(0, 0, 0), At(4, 13, 0)}
  /\ \E S \in PreStores :
       /\ categories = S.categories
       /\ goals = S.goals
       /\ tasks = S.tasks
       /\ reminders = S.reminders
       /\ blueprints = S.blueprints
       /\ slots = S.slots
  /\ dirty = EmptyTable
  /\ last = Result("init", 0, TRUE, FALSE)
  /\ calls = 0

NextImport ==
  /\ calls < MaxCalls
  /\ calls' = calls + 1
  /\ \E d \in DOMAIN Docs, fault \in BOOLEAN : Import(d, fault)

SpecImport == InitImport /\ [][NextImport]_vars

-----------------------------------------------------------------------------
(* Properties of the task life cycle *)

(* C4: in every state reached by create_task, update_task, the two mark    *)
(* operations, mark_slot_complete, the import, snooze_task,                *)
(* handle_missed_task and handle_recurring_tasks, a Task is completed if   *)
(* and only if its completion_date is set.                                 *)
C4_CompletionInvariant ==
  \A t \in Ids(tasks) : tasks[t].completed <=> tasks[t].completion_date # None

(* One task was completed and reopened while another stays completed. *)
C4_Witness ==
  /\ last.op = "mark_task_incomplete" /\ last.ret
  /\ ~tasks[last.arg].completed /\ tasks[last.arg].completion_date = None
  /\ \E u \in Ids(tasks) : tasks[u].completed /\ tasks[u].completion_date = Some(now)

(* The Tasks a TimeSlot stands for: same goal_id, same title. *)
Matching(slot_id) ==
  {t \in Ids(tasks) : /\ tasks[t].goal_id = slots[slot_id].goal_id
                      /\ tasks[t].title = slots[slot_id].title}

(* The backing Task of a TimeSlot: the first of the matching ones. *)
Backing(slot_id) == CHOOSE t \in Matching(slot_id) : \A u \in Matching(slot_id) : t <= u

StoreUnchanged ==
  UNCHANGED <<categories, goals, tasks, reminders, blueprints, slots>>

(* C6 as the spec states it: when a step of snooze_task or of              *)
(* handle_missed_task fails, the regeneration included, the operation      *)
(* returns false and none of its writes is in the store.                   *)
C6_AtomicOrNothing ==
  [][(last'.op \in {"snooze_task", "handle_missed_task"} /\ last'.fault)
       => (~last'.ret /\ StoreUnchanged)]_vars

TomorrowAtFive == At(DateOf(now) + 1, 17, 0)

(* The slot is there and its backing task is due today or earlier. *)
SnoozedDue(slot_id) ==
  /\ slot_id \in Ids(slots)
  /\ Matching(slot_id) # {}
  /\ tasks[Backing(slot_id)].deadline # None
  /\ DateOf(tasks[Backing(slot_id)].deadline[1]) <= DateOf(now)

SnoozeReturnedTrue == last'.op = "snooze_task" /\ last'.ret

GenerateAfterSnooze ==
  (last.op = "snooze_task" /\ last.ret /\ last'.op = "generate" /\ ~last'.fault)
    => last'.ret

(* C9, amended: after snooze_task(slot_id) returns true for a slot whose   *)
(* backing task is due today or earlier, the task's deadline is tomorrow   *)
(* 17:00 and the snoozed TimeSlot row is deleted: if the regeneration      *)
(* failed the schedule is the old one without that row; if it succeeded    *)
(* the schedule is a fresh one of seven Blueprints whose TimeSlot ids      *)
(* start again at 1, so a new TimeSlot may carry the original id.  A       *)
(* following generate_weekly_schedule() that meets no storage fault        *)
(* returns true.                                                           *)
C9_SnoozeAmended ==
  [][/\ (SnoozeReturnedTrue /\ SnoozedDue(last'.arg)) =>
          /\ tasks'[Backing(last'.arg)].deadline = Some(TomorrowAtFive)
          /\ last'.fault =>
               /\ slots' = Delete(slots, {last'.arg})
               /\ blueprints' = blueprints
          /\ ~last'.fault =>
               /\ Cardinality(Ids(blueprints')) = Len(DAYS)
               /\ Ids(slots') = 1..Cardinality(Ids(slots'))
     /\ GenerateAfterSnooze]_vars

(* C9 as the spec states it: no TimeSlot with the original id exists. *)
C9_SnoozeOriginal ==
  [][/\ (SnoozeReturnedTrue /\ SnoozedDue(last'.arg)) =>
          /\ tasks'[Backing(last'.arg)].deadline = Some(TomorrowAtFive)
          /\ last'.arg \notin Ids(slots')
     /\ GenerateAfterSnooze]_vars

(* A snooze with a successful regeneration that pushed a deadline: the     *)
(* fresh schedule has a TimeSlot under the snoozed id.                     *)
C9_Witness ==
  /\ last.op = "snooze_task" /\ last.ret /\ ~last.fault
  /\ last.arg \in Ids(slots)
  /\ \E t \in Ids(tasks) :
       /\ tasks[t].deadline = Some(TomorrowAtFive)
       /\ tasks[t].title = slots[last.arg].title

MarkSlotCompleteCalled == last'.op = "mark_slot_complete"

TaskCompletedNow(t) ==
  tasks' = [tasks EXCEPT ![t] = [@ EXCEPT !.completed = TRUE,
                                           !.completion_date = Some(now)]]

(* C10, amended: mark_slot_complete(slot_id) returns false only if no      *)
(* TimeSlot with that id exists or the store raised during the call, and   *)
(* then it changes nothing; for an existing slot with no matching Task it  *)
(* returns true and changes no Task; for an existing slot with a matching  *)
(* Task it returns true and that Task ends completed with completion_date  *)
(* now.                                                                    *)
C10_MarkSlotCompleteAmended ==
  [][MarkSlotCompleteCalled =>
       /\ ~last'.ret => ((last'.arg \notin Ids(slots) \/ last'.fault) /\ StoreUnchanged)
       /\ (last'.arg \in Ids(slots) /\ ~last'.fault) => last'.ret
       /\ (last'.ret /\ Matching(last'.arg) = {}) => tasks' = tasks
       /\ (last'.ret /\ Matching(last'.arg) # {}) => TaskCompletedNow(Backing(last'.arg))
    ]_vars

(* C10 as the spec states it: false only if the slot does not exist. *)
C10_MarkSlotCompleteOriginal ==
  [][(MarkSlotCompleteCalled /\ ~last'.ret) => last'.arg \notin Ids(slots)]_vars

(* mark_slot_complete returned true for a slot whose task it completed. *)
C10_Witness ==
  /\ last.op = "mark_slot_complete" /\ last.ret
  /\ last.arg \in Ids(slots)
  /\ Matching(last.arg) # {}
  /\ tasks[Backing(last.arg)].completed
  /\ tasks[Backing(last.arg)].completion_date = Some(now)

-----------------------------------------------------------------------------
(* Properties of import_blueprint_to_database *)

ImportCalled(d) == last'.op = "import" /\ last'.arg = d

(* C5: an import that directly follows an import of the same document      *)
(* creates no Category, no Goal and no Task.                                *)
C5_ImportIdempotent ==
  [][(last.op = "import" /\ ~last.fault /\ ImportCalled(last.arg))
       => (categories' = categories /\ goals' = goals /\ tasks' = tasks)]_vars

(* The document that names "Physics" twice was imported at least twice and *)
(* the store holds what one import creates.                                *)
C5_Witness ==
  /\ calls >= 2
  /\ last.op = "import" /\ last.arg = 1 /\ last.ret
  /\ Cardinality({t \in Ids(tasks) : tasks[t].title = "Physics"}) = 1
  /\ Cardinality(Ids(tasks)) = 2
  /\ Cardinality(Ids(goals)) = 2

(* C8: an import that raises returns false and leaves no Category, Goal or *)
(* Task it had added.                                                      *)
C8_ImportRollback ==
  [][(last'.op = "import" /\ ~last'.ret)
       => (categories' = categories /\ goals' = goals /\ tasks' = tasks)]_vars

(* The import of the document whose second activity has no name failed,    *)
(* and the category it had added before is not in the store.               *)
C8_Witness ==
  /\ last.op = "import" /\ last.arg = 2 /\ ~last.ret /\ ~last.fault
  /\ \A c \in Ids(categories) : categories[c].name # "Freelancing"

-----------------------------------------------------------------------------
(* Properties of the no-op cases of the slot and task operations *)

(* C11 as the spec states it: mark_slot_complete(slot_id) for a slot whose  *)
(* backing task is already completed leaves every Task as it is, its       *)
(* completion_date included, also when the call comes at a later time.     *)
C11_MarkSlotCompleteIdempotent ==
  [][(/\ MarkSlotCompleteCalled
      /\ last'.arg \in Ids(slots)
      /\ Matching(last'.arg) # {}
      /\ tasks[Backing(last'.arg)].completed) => tasks' = tasks]_vars

(* The task is there and its deadline, if any, is not before now. *)
NotMissed(task_id) ==
  /\ task_id \in Ids(tasks)
  /\ tasks[task_id].deadline # None => tasks[task_id].deadline[1] >= now

(* The slot is there and its backing task has no deadline or one dated     *)
(* after today.                                                            *)
SnoozedNotDue(slot_id) ==
  /\ slot_id \in Ids(slots)
  /\ Matching(slot_id) # {}
  /\ tasks[Backing(slot_id)].deadline # None
       => DateOf(tasks[Backing(slot_id)].deadline[1]) > DateOf(now)

(* C12: snooze_task(slot_id) on a slot whose backing task has a deadline   *)
(* after today, or none, changes no field of any Task, and so does         *)
(* handle_missed_task(task_id) on a task whose deadline is not in the      *)
(* past; each returns true in every call in which the store does not       *)
(* raise.                                                                  *)
C12_NoOpFrame ==
  [][/\ (last'.op = "snooze_task" /\ SnoozedNotDue(last'.arg))
          => (tasks' = tasks /\ (~last'.fault => last'.ret))
     /\ (last'.op = "handle_missed_task" /\ NotMissed(last'.arg))
          => (tasks' = tasks /\ (~last'.fault => last'.ret))]_vars

(* The first call snoozed TimeSlot 2 of the start-up schedule, which       *)
(* stands for the task "Replit" due on Thursday: the call returned true    *)
(* and the task is due on Thursday still.                                  *)
C12_Witness ==
  /\ calls = 1 /\ now = At(2, 0, 0)
  /\ last.op = "snooze_task" /\ last.arg = 2 /\ last.ret /\ ~last.fault
  /\ \E t \in Ids(tasks) : /\ tasks[t].title = "Replit"
                           /\ tasks[t].deadline = Some(At(3, 22, 0))

-----------------------------------------------------------------------------
(* reminder_service.py and the minute job of reminder_scheduler.py *)

(* The look-back window of check_reminders, in minutes. *)
ReminderWindow == 5

(* check_reminders: every untriggered Reminder whose time lies in the last *)
(* five minutes becomes triggered.                                         *)
check_reminders(S, clock) ==
  [S EXCEPT !.reminders =
     [r \in Ids(@) |->
        IF /\ @[r].reminder_time <= clock
           /\ @[r].reminder_time >= clock - ReminderWindow
           /\ ~@[r].triggered
          THEN [@[r] EXCEPT !.triggered = TRUE]
          ELSE @[r]]]

(* reminder_service.create_reminder: ret is the new Reminder's id, NoId    *)
(* for None.                                                               *)
service_create_reminder(S, task_id, reminder_time) ==
  IF task_id \notin Ids(S.tasks) THEN [ret |-> NoId, store |-> S]
  ELSE [ret |-> NextId(S.reminders),
        store |-> create_reminder(S, task_id, reminder_time)]

(* update_reminder: args = [task_id, reminder_time, triggered], each None  *)
(* or Some(value).                                                         *)
update_reminder(S, reminder_id, args) ==
  IF reminder_id \notin Ids(S.reminders) THEN [ret |-> NoId, store |-> S]
  ELSE LET reminder == S.reminders[reminder_id]
           r1 == IF args.task_id # None /\ args.task_id[1] \in Ids(S.tasks)
                   THEN [reminder EXCEPT !.task_id = args.task_id[1]]
                   ELSE reminder
           r2 == IF args.reminder_time # None
                   THEN [r1 EXCEPT !.reminder_time = args.reminder_time[1]]
                   ELSE r1
           r3 == IF args.triggered # None
                   THEN [r2 EXCEPT !.triggered = args.triggered[1]]
                   ELSE r2
       IN [ret |-> reminder_id, store |-> [S EXCEPT !.reminders[reminder_id] = r3]]

-----------------------------------------------------------------------------
(* The reminders of a task over the minutes before its deadline *)

MaxReminderCalls == 3

(* Monday 09:00.  The task "Maths" due at 10:05 was created just now, and  *)
(* with it the Reminder of one hour before the deadline.                   *)
InitReminder ==
  /\ now = At(0, 9, 0)
  /\ \E S \in {create_task(StartUp(At(0, 0, 0)),
                           [title |-> "Maths", goal_id |-> 1,
                            deadline |-> Some(At(0, 10, 5)), priority |-> 2,
                            recurrence_type |-> None, recurrence_value |-> None,
                            parent_task_id |-> NoId],
                           At(0, 9, 0)).store} :
       /\ categories = S.categories
       /\ goals = S.goals
       /\ tasks = S.tasks
       /\ reminders = S.reminders
       /\ blueprints = S.blueprints
       /\ slots = S.slots
  /\ dirty = EmptyTable
  /\ last = Result("init", 0, TRUE, FALSE)
  /\ calls = 0

ReminderIds == Ids(reminders) \cup {NextId(reminders)}

(* The bodies of PUT /api/reminders/<id>: task_id and reminder_time are    *)
(* required by the schema, any other key passes unvalidated.               *)
ReminderArgs ==
  [task_id : {Some(1), Some(NextId(tasks))},
   reminder_time : {Some(now), Some(now + ReminderWindow)},
   triggered : {None, Some(TRUE), Some(FALSE)}]

CheckReminders ==
  /\ Commit(check_reminders(Store, now))
  /\ last' = Result("check_reminders", 0, TRUE, FALSE)
  /\ UNCHANGED now

CreateReminder(task_id, reminder_time) ==
  \E r \in {service_create_reminder(Store, task_id, reminder_time)} :
    /\ Commit(r.store)
    /\ last' = Result("create_reminder", task_id, r.ret # NoId, FALSE)
    /\ UNCHANGED now

UpdateReminder(reminder_id, args) ==
  \E r \in {update_reminder(Store, reminder_id, args)} :
    /\ Commit(r.store)
    /\ last' = Result("update_reminder", reminder_id, r.ret # NoId, FALSE)
    /\ UNCHANGED now

(* Minutes pass. *)
Wait(minutes) ==
  /\ now' = now + minutes
  /\ last' = Result("wait", minutes, TRUE, FALSE)
  /\ UNCHANGED <<categories, goals, tasks, reminders, blueprints, slots, dirty>>

CallReminder ==
  \/ CheckReminders
  \/ \E task_id \in TaskIds, reminder_time \in {now, now + ReminderWindow} :
       CreateReminder(task_id, reminder_time)
  \/ \E reminder_id \in ReminderIds, args \in ReminderArgs :
       UpdateReminder(reminder_id, args)
  \/ \E task_id \in TaskIds, args \in UpdateArgs : UpdateTask(task_id, args)
  \/ \E minutes \in {ReminderWindow, 60} : Wait(minutes)

NextReminder == calls < MaxReminderCalls /\ calls' = calls + 1 /\ CallReminder

SpecReminder == InitReminder /\ [][NextReminder]_vars

(* C13 as the spec states it: over check_reminders, create_reminder,       *)
(* update_reminder and task updates, a Reminder that is triggered stays    *)
(* triggered for as long as it exists.                                     *)
C13_TriggeredOneWay ==
  [][\A r \in Ids(reminders) \cap Ids(reminders') :
       reminders[r].triggered => reminders'[r].triggered]_vars

-----------------------------------------------------------------------------
(* blueprint_service.py, and the deletions of category_service.py and      *)
(* goal_service.py.  Each operation runs on the session's working copy W   *)
(* and yields what it returns (ret), the working copy it leaves (store),   *)
(* whether it committed (commit) and whether it raised to its caller       *)
(* (raised).                                                               *)

SessionOutcome(ret, store, commit, raised) ==
  [ret |-> ret, store |-> store, commit |-> commit, raised |-> raised]

(* What the session sees: the store with the uncommitted rows over it. *)
Flushed(S, pending) ==
  [S EXCEPT !.slots = [i \in Ids(@) |-> IF i \in Ids(pending) THEN pending[i] ELSE @[i]]]

(* _parse_time: a string "H:MM" is the pair <<H, MM>>; None when the       *)
(* pattern does not match.                                                 *)
parse_time(time_str) ==
  IF time_str[1] \in 0..23 /\ time_str[2] \in 0..59
    THEN Some(time_str[1] * 60 + time_str[2])
    ELSE None

(* create_blueprint *)
create_blueprint(W, name, day_of_week, is_active) ==
  SessionOutcome(NextId(W.blueprints),
                 [W EXCEPT !.blueprints =
                    Insert(@, NextId(@), [name |-> name, day_of_week |-> day_of_week,
                                          is_active |-> is_active])],
                 TRUE, FALSE)

(* update_blueprint: args = [name, day_of_week, is_active], each None or   *)
(* Some(value).                                                            *)
update_blueprint(W, blueprint_id, args) ==
  IF blueprint_id \notin Ids(W.blueprints) THEN SessionOutcome(NoId, W, FALSE, FALSE)
  ELSE LET b0 == W.blueprints[blueprint_id]
           b1 == IF args.name # None THEN [b0 EXCEPT !.name = args.name[1]] ELSE b0
           b2 == IF args.day_of_week # None
                   THEN [b1 EXCEPT !.day_of_week = args.day_of_week[1]] ELSE b1
           b3 == IF args.is_active # None
                   THEN [b2 EXCEPT !.is_active = args.is_active[1]] ELSE b2
       IN SessionOutcome(blueprint_id, [W EXCEPT !.blueprints[blueprint_id] = b3],
                         TRUE, FALSE)

(* delete_blueprint: the Blueprint goes with its TimeSlots (cascade). *)
delete_blueprint(W, blueprint_id) ==
  IF blueprint_id \notin Ids(W.blueprints) THEN SessionOutcome(FALSE, W, FALSE, FALSE)
  ELSE SessionOutcome(TRUE,
                      [W EXCEPT !.blueprints = Delete(@, {blueprint_id}),
                                !.slots = Delete(@, {s \in Ids(@) :
                                                       @[s].blueprint_id = blueprint_id})],
                      TRUE, FALSE)

(* create_time_slot: args = [category_id, title, start_time, end_time,     *)
(* goal_id]; goal_id NoId is "no goal".  Every check raises ValueError.    *)
create_time_slot(W, blueprint_id, args) ==
  LET start_time_obj == parse_time(args.start_time)
      end_time_obj == parse_time(args.end_time)
  IN IF \/ blueprint_id \notin Ids(W.blueprints)
        \/ args.category_id \notin Ids(W.categories)
        \/ (args.goal_id # NoId /\ args.goal_id \notin Ids(W.goals))
        \/ start_time_obj = None
        \/ end_time_obj = None
       THEN SessionOutcome(NoId, W, FALSE, TRUE)
     ELSE IF start_time_obj[1] >= end_time_obj[1]
       THEN SessionOutcome(NoId, W, FALSE, TRUE)
     ELSE SessionOutcome(NextId(W.slots),
                         [W EXCEPT !.slots =
                            Insert(@, NextId(@),
                                   [blueprint_id |-> blueprint_id,
                                    category_id |-> args.category_id,
                                    title |-> args.title,
                                    start_time |-> start_time_obj[1],
                                    end_time |-> end_time_obj[1],
                                    goal_id |-> args.goal_id])],
                         TRUE, FALSE)

(* The check of update_time_slot that start_time is before end_time. *)
TimesOrdered(time_slot) == time_slot.start_time < time_slot.end_time

(* update_time_slot: args = [title, start_time, end_time, category_id,     *)
(* goal_id], each None or Some(value).  The fields are assigned to the     *)
(* loaded TimeSlot one after the other, each ValueError is raised with the *)
(* assignments before it made, and nothing is rolled back.                 *)
update_time_slot(W, slot_id, args) ==
  IF slot_id \notin Ids(W.slots) THEN SessionOutcome(NoId, W, FALSE, FALSE)
  ELSE LET t0 == W.slots[slot_id]
           t1 == IF args.title # None THEN [t0 EXCEPT !.title = args.title[1]] ELSE t0
           bad_start == args.start_time # None /\ parse_time(args.start_time[1]) = None
           t2 == IF args.start_time # None /\ ~bad_start
                   THEN [t1 EXCEPT !.start_time = parse_time(args.start_time[1])[1]]
                   ELSE t1
           bad_end == args.end_time # None /\ parse_time(args.end_time[1]) = None
           t3 == IF args.end_time # None /\ ~bad_end
                   THEN [t2 EXCEPT !.end_time = parse_time(args.end_time[1])[1]]
                   ELSE t2
           bad_category == /\ args.category_id # None
                           /\ args.category_id[1] \notin Ids(W.categories)
           t4 == IF args.category_id # None /\ ~bad_category
                   THEN [t3 EXCEPT !.category_id = args.category_id[1]]
                   ELSE t3
           bad_goal == /\ args.goal_id # None
                       /\ args.goal_id[1] # 0
                       /\ args.goal_id[1] \notin Ids(W.goals)
           t5 == IF args.goal_id # None /\ ~bad_goal
                   THEN [t4 EXCEPT !.goal_id = args.goal_id[1]]
                   ELSE t4
           Raise(t) == SessionOutcome(NoId, [W EXCEPT !.slots[slot_id] = t], FALSE, TRUE)
       IN IF bad_start THEN Raise(t1)
          ELSE IF bad_end THEN Raise(t2)
          ELSE IF ~TimesOrdered(t3) THEN Raise(t3)
          ELSE IF bad_category THEN Raise(t3)
          ELSE IF bad_goal THEN Raise(t4)
          ELSE SessionOutcome(slot_id, [W EXCEPT !.slots[slot_id] = t5], TRUE, FALSE)

(* delete_time_slot *)
delete_time_slot(W, slot_id) ==
  IF slot_id \notin Ids(W.slots) THEN SessionOutcome(FALSE, W, FALSE, FALSE)
  ELSE SessionOutcome(TRUE, [W EXCEPT !.slots = Delete(@, {slot_id})], TRUE, FALSE)

(* get_default_blueprint: the Blueprint named 'Default Schedule', made     *)
(* with the category 'Study' and two TimeSlots when there is none.         *)
DefaultSlotArgs(category_id) ==
  <<[category_id |-> category_id, title |-> "Morning Study Session",
     start_time |-> <<8, 0>>, end_time |-> <<10, 0>>, goal_id |-> NoId],
    [category_id |-> category_id, title |-> "Afternoon Study Session",
     start_time |-> <<14, 0>>, end_time |-> <<16, 0>>, goal_id |-> NoId]>>

get_default_blueprint(W) ==
  LET found == {b \in Ids(W.blueprints) : W.blueprints[b].name = "Default Schedule"}
      made == create_blueprint(W, "Default Schedule", NoDay, TRUE)
      study == FindCategory(made.store.categories, "Study")
      W1 == IF study = NoId
              THEN [made.store EXCEPT !.categories =
                      Insert(@, NextId(@), [name |-> "Study"])]
              ELSE made.store
      study_category == FindCategory(W1.categories, "Study")
      W2 == create_time_slot(W1, made.ret, DefaultSlotArgs(study_category)[1]).store
      W3 == create_time_slot(W2, made.ret, DefaultSlotArgs(study_category)[2]).store
  IN IF found # {}
       THEN SessionOutcome(CHOOSE b \in found : \A c \in found : b <= c, W, FALSE, FALSE)
       ELSE SessionOutcome(made.ret, W3, TRUE, FALSE)

(* The relationship TimeSlot.goal (backref time_slots) has no delete       *)
(* cascade: the TimeSlots of a deleted Goal stay and lose their goal_id.   *)
ReleaseSlotsNot(tbl, gone) == tbl
ReleaseSlots(tbl, gone) ==
  [s \in Ids(tbl) |->
     IF tbl[s].goal_id \in gone THEN [tbl[s] EXCEPT !.goal_id = NoId] ELSE tbl[s]]

(* The deletion of the Goals `gone` by the session: their Tasks go with    *)
(* them, and with the Tasks their Reminders (cascade="all, delete-orphan"); *)
(* subtasks of a deleted Task lose their parent.                           *)
DeleteGoals(W, gone) ==
  LET gone_tasks == {t \in Ids(W.tasks) : W.tasks[t].goal_id \in gone}
  IN [W EXCEPT
        !.goals = Delete(@, gone),
        !.tasks = [t \in Ids(@) \ gone_tasks |->
                     IF @[t].parent_task_id \in gone_tasks
                       THEN [@[t] EXCEPT !.parent_task_id = NoId]
                       ELSE @[t]],
        !.reminders = Delete(@, {r \in Ids(@) : @[r].task_id \in gone_tasks}),
        !.slots = ReleaseSlots(@, gone)]

(* delete_goal *)
delete_goal(W, goal_id) ==
  IF goal_id \notin Ids(W.goals) THEN SessionOutcome(FALSE, W, FALSE, FALSE)
  ELSE SessionOutcome(TRUE, DeleteGoals(W, {goal_id}), TRUE, FALSE)

(* delete_category: the Category goes with its Goals (cascade). *)
delete_category(W, category_id) ==
  IF category_id \notin Ids(W.categories) THEN SessionOutcome(FALSE, W, FALSE, FALSE)
  ELSE SessionOutcome(
         TRUE,
         [DeleteGoals(W, {g \in Ids(W.goals) : W.goals[g].category_id = category_id})
            EXCEPT !.categories = Delete(@, {category_id})],
         TRUE, FALSE)

-----------------------------------------------------------------------------
(* The schedule edited by hand: the operations of blueprint_service.py,    *)
(* the deletions of a Category and of a Goal, and the generator, called in *)
(* any order on the start-up state.  Operations called one after the other *)
(* share the session until it is removed.                                  *)

MaxBlueprintCalls == 3
MaxBlueprintArg == 1

InitBlueprint ==
  /\ now = At(0, 0, 0)
  /\ \E S \in {StartUp(At(0, 0, 0))} :
       /\ categories = S.categories
       /\ goals = S.goals
       /\ tasks = S.tasks
       /\ reminders = S.reminders
       /\ blueprints = S.blueprints
       /\ slots = S.slots
  /\ dirty = EmptyTable
  /\ last = Result("init", 0, TRUE, FALSE)
  /\ calls = 0

(* The working copy of the session. *)
Session == Flushed(Store, dirty)

(* The rows of the working copy W that the store does not hold yet. *)
Pending(W) ==
  [s \in {i \in Ids(W.slots) \cap Ids(slots) : W.slots[i] # slots[i]} |-> W.slots[s]]

ApplySession(op, arg, ret, r) ==
  /\ IF r.commit
       THEN Commit(r.store)
       ELSE /\ UNCHANGED <<categories, goals, tasks, reminders, blueprints, slots>>
            /\ dirty' = Pending(r.store)
  /\ last' = [Result(op, arg, ret, FALSE) EXCEPT !.raised = r.raised]
  /\ UNCHANGED now

BlueprintIds ==
  {b \in Ids(blueprints) : b <= MaxBlueprintArg} \cup {NextId(blueprints)}

(* Arguments of update_blueprint: another day, switched off, switched on. *)
NoBlueprintUpdate == [name |-> None, day_of_week |-> None, is_active |-> None]
BlueprintArgs ==
  {[NoBlueprintUpdate EXCEPT !.day_of_week = Some("Tuesday")],
   [NoBlueprintUpdate EXCEPT !.is_active = Some(FALSE)],
   [NoBlueprintUpdate EXCEPT !.name = Some("Plan"), !.is_active = Some(TRUE)]}

(* Arguments of create_time_slot: a valid slot for goal 1, a slot that     *)
(* ends before it starts, a slot of a category that does not exist, a slot *)
(* for a goal that does not exist, a slot with a malformed start time.     *)
SlotTemplate ==
  [category_id |-> 1, title |-> "manual", start_time |-> <<9, 0>>,
   end_time |-> <<10, 0>>, goal_id |-> 1]
SlotArgs ==
  {SlotTemplate,
   [SlotTemplate EXCEPT !.start_time = <<10, 0>>, !.end_time = <<9, 0>>],
   [SlotTemplate EXCEPT !.category_id = NextId(categories)],
   [SlotTemplate EXCEPT !.goal_id = NextId(goals)],
   [SlotTemplate EXCEPT !.start_time = <<24, 0>>, !.goal_id = NoId]}

(* Arguments of update_time_slot: an end time before every start time of   *)
(* the day, a new title with valid times, a new title with a malformed     *)
(* start time, the goal taken away, a category that does not exist.        *)
NoSlotUpdate ==
  [title |-> None, start_time |-> None, end_time |-> None, category_id |-> None,
   goal_id |-> None]
SlotUpdateArgs ==
  {[NoSlotUpdate EXCEPT !.end_time = Some(<<5, 0>>)],
   [NoSlotUpdate EXCEPT !.title = Some("manual"), !.start_time = Some(<<9, 0>>),
                        !.end_time = Some(<<10, 0>>)],
   [NoSlotUpdate EXCEPT !.title = Some("manual"), !.start_time = Some(<<9, 60>>)],
   [NoSlotUpdate EXCEPT !.goal_id = Some(0)],
   [NoSlotUpdate EXCEPT !.category_id = Some(NextId(categories))]}

CreateBlueprint(name, day_of_week, is_active) ==
  \E r \in {create_blueprint(Session, name, day_of_week, is_active)} :
    ApplySession("create_blueprint", r.ret, TRUE, r)

UpdateBlueprint(blueprint_id, args) ==
  \E r \in {update_blueprint(Session, blueprint_id, args)} :
    ApplySession("update_blueprint", blueprint_id, r.ret # NoId, r)

DeleteBlueprint(blueprint_id) ==
  \E r \in {delete_blueprint(Session, blueprint_id)} :
    ApplySession("delete_blueprint", blueprint_id, r.ret, r)

GetDefaultBlueprint ==
  \E r \in {get_default_blueprint(Session)} :
    ApplySession("get_default_blueprint", r.ret, TRUE, r)

CreateTimeSlot(blueprint_id, args) ==
  \E r \in {create_time_slot(Session, blueprint_id, args)} :
    ApplySession("create_time_slot", blueprint_id, r.ret # NoId, r)

UpdateTimeSlot(slot_id, args) ==
  \E r \in {update_time_slot(Session, slot_id, args)} :
    ApplySession("update_time_slot", slot_id, r.ret # NoId, r)

DeleteTimeSlot(slot_id) ==
  \E r \in {delete_time_slot(Session, slot_id)} :
    ApplySession("delete_time_slot", slot_id, r.ret, r)

DeleteGoal(goal_id) ==
  \E r \in {delete_goal(Session, goal_id)} :
    ApplySession("delete_goal", goal_id, r.ret, r)

DeleteCategory(category_id) ==
  \E r \in {delete_category(Session, category_id)} :
    ApplySession("delete_category", category_id, r.ret, r)

(* The session is removed when its request or application context ends:   *)
(* what it had not committed is dropped.                                   *)
RemoveSession ==
  /\ dirty' = EmptyTable
  /\ last' = Result("remove_session", 0, TRUE, FALSE)
  /\ UNCHANGED <<now, categories, goals, tasks, reminders, blueprints, slots>>

(* strftime("%H:%M"): the four digits of a time of day, which compare as   *)
(* the strings do.                                                         *)
FormatTime(minutes) ==
  <<(minutes \div 60) \div 10, (minutes \div 60) % 10,
    (minutes % 60) \div 10, (minutes % 60) % 10>>

(* A schedule listed in the order of the query. *)
DailyScheduleUnsorted(W, day_arg, clock) ==
  LET day == IF day_arg = NoDay THEN DAYS[WeekdayNum(clock) + 1] ELSE day_arg
      found == {b \in Ids(W.blueprints) : W.blueprints[b].day_of_week = day}
      blueprint == CHOOSE b \in found : \A c \in found : b <= c
      time_slots == IdSeq({t \in Ids(W.slots) : W.slots[t].blueprint_id = blueprint})
  IN IF found = {}
       THEN [day |-> day, has_schedule |-> FALSE, blueprint_id |-> NoId, time_slots |-> <<>>]
       ELSE [day |-> day, has_schedule |-> TRUE, blueprint_id |-> blueprint,
             time_slots |-> [i \in DOMAIN time_slots |->
                               [id |-> time_slots[i],
                                start_time |-> FormatTime(W.slots[time_slots[i]].start_time)]]]

(* get_daily_schedule.  day is a day name, or NoDay for today.  The result *)
(* lists each slot by its id and its formatted start time; blueprint_id is *)
(* NoId in the result without schedule, which has no such key.             *)
get_daily_schedule(W, day_arg, clock) ==
  LET day == IF day_arg = NoDay THEN DAYS[WeekdayNum(clock) + 1] ELSE day_arg
      found == {b \in Ids(W.blueprints) : W.blueprints[b].day_of_week = day}
      blueprint == CHOOSE b \in found : \A c \in found : b <= c
      time_slots == IdSeq({t \in Ids(W.slots) : W.slots[t].blueprint_id = blueprint})
      formatted_slots == [i \in DOMAIN time_slots |->
                            [id |-> time_slots[i],
                             start_time |-> FormatTime(W.slots[time_slots[i]].start_time)]]
  IN IF found = {}
       THEN [day |-> day, has_schedule |-> FALSE, blueprint_id |-> NoId, time_slots |-> <<>>]
       ELSE [day |-> day, has_schedule |-> TRUE, blueprint_id |-> blueprint,
             time_slots |-> StableSort(formatted_slots,
                                       [i \in DOMAIN formatted_slots |->
                                          formatted_slots[i].start_time])]

(* The routes /api/schedule/today and /api/schedule/day/<day>: a read in   *)
(* the session, which writes nothing and commits nothing.                  *)
GetDailySchedule(day) ==
  /\ last' = Result("get_daily_schedule", day, get_daily_schedule(Session, day, now), FALSE)
  /\ UNCHANGED <<now, categories, goals, tasks, reminders, blueprints, slots, dirty>>

CallBlueprint ==
  \/ \E day_of_week \in {NoDay, "Monday"}, is_active \in BOOLEAN :
       CreateBlueprint("Plan", day_of_week, is_active)
  \/ \E blueprint_id \in BlueprintIds, args \in BlueprintArgs :
       UpdateBlueprint(blueprint_id, args)
  \/ \E blueprint_id \in BlueprintIds : DeleteBlueprint(blueprint_id)
  \/ GetDefaultBlueprint
  \/ \E blueprint_id \in BlueprintIds, args \in SlotArgs :
       CreateTimeSlot(blueprint_id, args)
  \/ \E slot_id \in SlotIds, args \in SlotUpdateArgs : UpdateTimeSlot(slot_id, args)
  \/ \E slot_id \in SlotIds : DeleteTimeSlot(slot_id)
  \/ \E goal_id \in {1, NextId(goals)} : DeleteGoal(goal_id)
  \/ \E category_id \in {1, NextId(categories)} : DeleteCategory(category_id)
  \/ \E fault \in RegenFaults \cup {NoFault} : Generate(fault)
  \/ RemoveSession
  \/ \E day \in {NoDay, "Tuesday", "Holiday"} : GetDailySchedule(day)

NextBlueprint == calls < MaxBlueprintCalls /\ calls' = calls + 1 /\ CallBlueprint

SpecBlueprint == InitBlueprint /\ [][NextBlueprint]_vars

-----------------------------------------------------------------------------
(* Properties of the schedule edited by hand *)

ActiveBlueprints(day_of_week) ==
  {b \in Ids(blueprints) : /\ blueprints[b].is_active
                           /\ blueprints[b].day_of_week = day_of_week}

(* C14 as the spec states it: in every state reached by create_blueprint,  *)
(* update_blueprint, get_default_blueprint, delete_blueprint and           *)
(* generate_weekly_schedule there is at most one active Blueprint for each *)
(* day of the week and at most one for no day.                             *)
C14_OneActivePerDay ==
  \A day_of_week \in SeqToSet(DAYS) \cup {NoDay} :
    Cardinality(ActiveBlueprints(day_of_week)) <= 1

(* C15 as the spec states it: every TimeSlot in the store starts before it *)
(* ends, whatever create_time_slot, update_time_slot and the generator     *)
(* were called with and whichever operation committed the session later.   *)
C15_SlotTimesOrdered ==
  \A s \in Ids(slots) : slots[s].start_time < slots[s].end_time

(* The operation just called was given the id of a Blueprint, a TimeSlot   *)
(* or a Task that does not exist.                                          *)
NotFoundCall ==
  \/ /\ last'.op \in {"update_blueprint", "delete_blueprint", "create_time_slot"}
     /\ last'.arg \notin Ids(blueprints)
  \/ /\ last'.op \in {"update_time_slot", "delete_time_slot", "mark_slot_complete",
                      "snooze_task"}
     /\ last'.arg \notin Ids(slots)
  \/ /\ last'.op \in {"handle_missed_task", "update_task", "delete_task"}
     /\ last'.arg \notin Ids(tasks)

(* C16 as the spec states it: an operation given a blueprint_id, slot_id   *)
(* or task_id that does not exist returns its None/False sentinel, does    *)
(* not raise, and leaves the store unchanged.                              *)
C16_NotFoundSentinel ==
  [][NotFoundCall => (~last'.ret /\ ~last'.raised /\ StoreUnchanged)]_vars

(* The Goals of a Category. *)
GoalsOf(category_id) == {g \in Ids(goals) : goals[g].category_id = category_id}

(* After delete_category(c) returned true: no Goal of c, no Task of the    *)
(* Goals c had and no TimeSlot that references one of them is in the       *)
(* store.                                                                  *)
DeleteCategoryCascades ==
  (last'.op = "delete_category" /\ last'.ret) =>
    /\ \A g \in Ids(goals') : goals'[g].category_id # last'.arg
    /\ Ids(goals') \cap GoalsOf(last'.arg) = {}
    /\ \A t \in Ids(tasks') : tasks'[t].goal_id \notin GoalsOf(last'.arg)
    /\ \A s \in Ids(slots') : slots'[s].goal_id \notin GoalsOf(last'.arg)

(* A TimeSlot's goal_id, when set, is the id of a Goal in the store. *)
GoalRefsValid ==
  \A s \in Ids(slots) : slots[s].goal_id # NoId => slots[s].goal_id \in Ids(goals)

-----------------------------------------------------------------------------
(* reward_system.py: get_current_streak *)

(* Task.query.filter(Task.completion_date.between(day_start, day_end))     *)
(* .count() > 0: some Task was completed on that calendar day.             *)
CompletedOn(tbl, date) ==
  \E t \in Ids(tbl) : /\ tbl[t].completion_date # None
                      /\ DateOf(tbl[t].completion_date[1]) = date

(* The while loop: the days with a completion from check_date backward. *)
RECURSIVE StreakBack(_, _)
StreakBack(tbl, check_date) ==
  IF CompletedOn(tbl, check_date) THEN 1 + StreakBack(tbl, check_date - 1) ELSE 0

(* A streak counted from today backward, which ends at a today without     *)
(* completion.                                                             *)
StreakFromToday(tbl, clock) == StreakBack(tbl, DateOf(clock))

get_current_streak(tbl, clock) ==
  StreakBack(tbl, DateOf(clock) - 1)
    + (IF CompletedOn(tbl, DateOf(clock)) THEN 1 ELSE 0)

-----------------------------------------------------------------------------
(* The streak over every history of completions of the last days *)

MaxStreakDays == 4

(* A store whose Tasks were completed on the days `dates`, each at the     *)
(* time of day hm, and that holds one Task not completed.                  *)
HistoryStore(dates, hm) ==
  LET S == import_blueprint_to_database(EmptyStore, Docs[3], At(0, 0, 0), FALSE).store
      days == IdSeq(dates)
  IN [S EXCEPT !.tasks =
        [t \in 1..(Len(days) + 1) |->
           IF t <= Len(days)
             THEN [NewTask("AWS", 1, None, 2)
                     EXCEPT !.completed = TRUE,
                            !.completion_date = Some(At(days[t], hm[1], hm[2]))]
             ELSE NewTask("AWS", 1, None, 2)]]

(* Today is day MaxStreakDays, at midnight or at noon; the completions fell *)
(* on any of the days up to today, at the first or the last minute.        *)
InitStreak ==
  /\ now \in {At(MaxStreakDays, 0, 0), At(MaxStreakDays, 12, 0)}
  /\ \E dates \in SUBSET (0..MaxStreakDays), hm \in {<<0, 0>>, <<23, 59>>} :
       \E S \in {HistoryStore(dates, hm)} :
         /\ categories = S.categories
         /\ goals = S.goals
         /\ tasks = S.tasks
         /\ reminders = S.reminders
         /\ blueprints = S.blueprints
         /\ slots = S.slots
  /\ dirty = EmptyTable
  /\ last = Result("init", 0, 0, FALSE)
  /\ calls = 0

GetCurrentStreak ==
  /\ last.op = "init"
  /\ last' = Result("get_current_streak", 0, get_current_streak(tasks, now), FALSE)
  /\ UNCHANGED <<now, categories, goals, tasks, reminders, blueprints, slots, dirty,
                 calls>>

NextStreak == GetCurrentStreak

SpecStreak == InitStreak /\ [][NextStreak]_vars

(* The days on which some Task was completed. *)
CompletionDays ==
  {DateOf(tasks[t].completion_date[1]) :
     t \in {u \in Ids(tasks) : tasks[u].completion_date # None}}

Today == DateOf(now)

(* The last day before today without a completion. *)
LastGap ==
  CHOOSE g \in (-1)..(Today - 1) :
    /\ g \notin CompletionDays
    /\ \A d \in (g + 1)..(Today - 1) : d \in CompletionDays

-----------------------------------------------------------------------------
(* priority_engine.py *)

(* (task.deadline - now).days: the whole days of the difference, rounded   *)
(* down also when the difference is negative.                              *)
DaysUntilTruncated(deadline, clock) ==
  IF deadline >= clock THEN (deadline - clock) \div MinutesPerDay
  ELSE -((clock - deadline) \div MinutesPerDay)
DaysUntil(deadline, clock) ==
  IF deadline >= clock THEN (deadline - clock) \div MinutesPerDay
  ELSE -(((clock - deadline) + MinutesPerDay - 1) \div MinutesPerDay)

(* A deadline score that does not tell an overdue Task from one due today. *)
DeadlineScoreNoOverdue(task, clock) ==
  IF task.deadline = None THEN 0
  ELSE LET days_until_deadline == DaysUntil(task.deadline[1], clock)
       IN CASE days_until_deadline <= 0 -> 150
            [] days_until_deadline \in 1..2 -> 100
            [] days_until_deadline \in 3..7 -> 50
            [] OTHER -> Max(0, 30 - (days_until_deadline \div 7) * 5)

(* _calculate_deadline_score *)
calculate_deadline_score(task, clock) ==
  IF task.deadline = None THEN 0
  ELSE LET days_until_deadline == DaysUntil(task.deadline[1], clock)
       IN CASE days_until_deadline < 0 -> 200
            [] days_until_deadline = 0 -> 150
            [] days_until_deadline \in 1..2 -> 100
            [] days_until_deadline \in 3..7 -> 50
            [] OTHER -> Max(0, 30 - (days_until_deadline \div 7) * 5)

category_map ==
  ("Certifications" :> 40) @@ ("Career Planning" :> 35) @@ ("Freelancing" :> 30)
    @@ ("AI Tools" :> 25) @@ ("Study" :> 20)

(* Goal.progress: int((completed_tasks / total_tasks) * 100), 0 for a Goal *)
(* without Tasks.                                                          *)
GoalProgress(S, goal_id) ==
  LET total_tasks == Cardinality({t \in Ids(S.tasks) : S.tasks[t].goal_id = goal_id})
      completed_tasks ==
        Cardinality({t \in Ids(S.tasks) : /\ S.tasks[t].goal_id = goal_id
                                          /\ S.tasks[t].completed})
  IN IF total_tasks = 0 THEN 0 ELSE (completed_tasks * 100) \div total_tasks

(* _calculate_goal_importance *)
calculate_goal_importance(S, task) ==
  LET goal == S.goals[task.goal_id]
      category_score == Get(category_map, S.categories[goal.category_id].name, 0)
      progress == GoalProgress(S, task.goal_id)
      progress_bonus == IF progress >= 75 THEN 30
                        ELSE IF progress >= 50 THEN 15
                        ELSE 0
  IN category_score + progress_bonus

(* _calculate_dependency_score: task.subtasks.count() * 20 *)
calculate_dependency_score(S, task_id) ==
  Cardinality({u \in Ids(S.tasks) : S.tasks[u].parent_task_id = task_id}) * 20

(* calculate_task_priority *)
calculate_task_priority(S, task_id, clock) ==
  LET task == S.tasks[task_id]
      base_score == task.priority * 100
  IN IF task.completed THEN 1000
     ELSE base_score - calculate_deadline_score(task, clock)
            - calculate_goal_importance(S, task)
            - calculate_dependency_score(S, task_id)

(* A sort by score that orders Tasks of equal score by descending id. *)
PrioritizeTiesById(S, found, clock) ==
  StableSort(found, [i \in DOMAIN found |->
                       <<calculate_task_priority(S, found[i], clock), -found[i]>>])

(* prioritize_tasks: sorted() by score, a stable sort of the sequence of   *)
(* Task ids.                                                               *)
prioritize_tasks(S, found, clock) ==
  StableSort(found, [i \in DOMAIN found |-> <<calculate_task_priority(S, found[i], clock)>>])

(* The first query of get_daily_priorities: a NULL deadline compares as    *)
(* not true.                                                               *)
DueOrNoDeadline(S, tomorrow) ==
  {t \in Ids(S.tasks) : /\ S.tasks[t].deadline = None \/ S.tasks[t].deadline[1] < tomorrow
                        /\ ~S.tasks[t].completed}
due_today_or_overdue(S, tomorrow) ==
  {t \in Ids(S.tasks) : /\ S.tasks[t].deadline # None
                        /\ S.tasks[t].deadline[1] < tomorrow
                        /\ ~S.tasks[t].completed}

(* The second query. *)
high_priority(S, tomorrow) ==
  {t \in Ids(S.tasks) : /\ S.tasks[t].priority = 1
                        /\ ~S.tasks[t].completed
                        /\ \/ S.tasks[t].deadline = None
                           \/ S.tasks[t].deadline[1] >= tomorrow}

(* get_daily_priorities *)
get_daily_priorities(S, limit, clock) ==
  LET tomorrow == Midnight(clock) + MinutesPerDay
      all_candidate_tasks == IdSeq(due_today_or_overdue(S, tomorrow))
                               \o IdSeq(high_priority(S, tomorrow))
  IN Take(prioritize_tasks(S, all_candidate_tasks, clock), limit)

(* suggest_next_task: NoId for None. *)
suggest_next_task(S, clock) ==
  LET priorities == get_daily_priorities(S, 1, clock)
  IN IF priorities # <<>> THEN priorities[1] ELSE NoId

-----------------------------------------------------------------------------
(* The priority engine over every small set of Tasks around one Task *)

MaxSubtasks == 3

PriorityNow == At(10, 12, 0)

(* Deadlines on each side of every threshold of the deadline score and of  *)
(* the midnight that ends today.                                           *)
PriorityDeadlines ==
  {Some(PriorityNow + off) :
     off \in {-2 * MinutesPerDay, -1, 0, MinutesPerDay - 1, MinutesPerDay,
              3 * MinutesPerDay - 1, 3 * MinutesPerDay, 8 * MinutesPerDay - 1,
              8 * MinutesPerDay, 14 * MinutesPerDay, 42 * MinutesPerDay,
              49 * MinutesPerDay}}
    \cup {Some(At(10, 23, 59)), Some(At(11, 0, 0)), None}

OtherCategoryNames == {"Class 11", "Study", "AI Tools", "Freelancing", "Career Planning"}

(* A store with the Goal "AWS" in "Certifications" and a Goal in the       *)
(* Category other.  Task 1 is in the Goal goal_id with the given deadline, *)
(* priority and completion; the Tasks 2..n+1 are its subtasks in the Goal  *)
(* "AWS", the first `done` of them completed, the odd ones High without    *)
(* deadline and the even ones Medium and due at the end of today.          *)
PriorityStore(other, goal_id, deadline, priority, completed, n, done) ==
  [EmptyStore EXCEPT
     !.categories = (1 :> [name |-> "Certifications"]) @@ (2 :> [name |-> other]),
     !.goals = (1 :> [title |-> "AWS", category_id |-> 1])
                 @@ (2 :> [title |-> other, category_id |-> 2]),
     !.tasks =
       [t \in 1..(n + 1) |->
          LET row == IF t = 1 THEN NewTask("Exam", goal_id, deadline, priority)
                     ELSE [NewTask("Chapter", 1,
                                   IF t % 2 = 0 THEN None ELSE Some(At(10, 23, 59)),
                                   IF t % 2 = 0 THEN 1 ELSE 2)
                             EXCEPT !.parent_task_id = 1]
              is_done == IF t = 1 THEN completed ELSE t - 1 <= done
          IN IF is_done
               THEN [row EXCEPT !.completed = TRUE,
                                !.completion_date = Some(At(9, 9, 0))]
               ELSE row]]

InitPriority ==
  /\ now = PriorityNow
  /\ \E goal \in {<<"Class 11", 1>>} \cup {<<other, 2>> : other \in OtherCategoryNames},
        deadline \in PriorityDeadlines, priority \in {1, 2, 3}, completed \in BOOLEAN,
        n \in 0..MaxSubtasks :
       \E done \in 0..n :
         \E S \in {PriorityStore(goal[1], goal[2], deadline, priority, completed, n, done)} :
           /\ categories = S.categories
           /\ goals = S.goals
           /\ tasks = S.tasks
           /\ reminders = S.reminders
           /\ blueprints = S.blueprints
           /\ slots = S.slots
  /\ dirty = EmptyTable
  /\ last = Result("init", 0, 0, FALSE)
  /\ calls = 0

(* The calls read the store and leave it as it is: each is made on the     *)
(* store as drawn, and a Task is scored again after a Task was scored.     *)
CalculateTaskPriority(task_id) ==
  /\ last.op \in {"init", "calculate_task_priority"}
  /\ last' = Result("calculate_task_priority", task_id,
                    calculate_task_priority(Store, task_id, now), FALSE)
  /\ UNCHANGED <<now, categories, goals, tasks, reminders, blueprints, slots, dirty,
                 calls>>

GetDailyPriorities(limit) ==
  /\ last.op = "init"
  /\ last' = Result("get_daily_priorities", limit,
                    get_daily_priorities(Store, limit, now), FALSE)
  /\ UNCHANGED <<now, categories, goals, tasks, reminders, blueprints, slots, dirty,
                 calls>>

SuggestNextTask ==
  /\ last.op = "init"
  /\ last' = Result("suggest_next_task", 0, suggest_next_task(Store, now), FALSE)
  /\ UNCHANGED <<now, categories, goals, tasks, reminders, blueprints, slots, dirty,
                 calls>>

(* Every order in which a caller can pass all the Tasks. *)
Orders(ids) ==
  {f \in [1..Cardinality(ids) -> ids] :
     \A i, j \in 1..Cardinality(ids) : i # j => f[i] # f[j]}

PrioritizeTasks ==
  /\ last.op = "init"
  /\ \E found \in Orders(Ids(tasks)) :
       last' = Result("prioritize_tasks", found, prioritize_tasks(Store, found, now), FALSE)
  /\ UNCHANGED <<now, categories, goals, tasks, reminders, blueprints, slots, dirty,
                 calls>>

NextPriority ==
  \/ \E task_id \in Ids(tasks) : CalculateTaskPriority(task_id)
  \/ \E limit \in {2, 10} : GetDailyPriorities(limit)
  \/ SuggestNextTask
  \/ PrioritizeTasks

SpecPriority == InitPriority /\ [][NextPriority]_vars

(* The deadline term and the goal term as the scoring rule words them. *)
MaxWeeks == 8

DeadlineTerm(task) ==
  IF task.deadline = None THEN 0
  ELSE LET due == task.deadline[1]
       IN IF due < now THEN 200
          ELSE IF due < now + MinutesPerDay THEN 150
          ELSE IF due < now + 3 * MinutesPerDay THEN 100
          ELSE IF due < now + 8 * MinutesPerDay THEN 50
          ELSE LET weeks == CHOOSE w \in 0..MaxWeeks :
                              /\ now + 7 * w * MinutesPerDay <= due
                              /\ due < now + 7 * (w + 1) * MinutesPerDay
               IN IF 5 * weeks >= 30 THEN 0 ELSE 30 - 5 * weeks

GoalTerm(task) ==
  LET name == categories[goals[task.goal_id].category_id].name
      mine == {t \in Ids(tasks) : tasks[t].goal_id = task.goal_id}
      finished == {t \in mine : tasks[t].completed}
  IN (IF name \in DOMAIN category_map THEN category_map[name] ELSE 0)
       + (IF 4 * Cardinality(finished) >= 3 * Cardinality(mine) THEN 30
          ELSE IF 2 * Cardinality(finished) >= Cardinality(mine) THEN 15
          ELSE 0)

ClaimedScore(task_id) ==
  IF tasks[task_id].completed THEN 1000
  ELSE tasks[task_id].priority * 100 - DeadlineTerm(tasks[task_id])
         - GoalTerm(tasks[task_id])
         - 20 * Cardinality({t \in Ids(tasks) : tasks[t].parent_task_id = task_id})

(* C20: for every Task, calculate_task_priority returns 1000 when the Task *)
(* is completed, and otherwise priority * 100, minus the deadline term     *)
(* (200 when the deadline has passed; 150 when it falls within the next    *)
(* day; 100 within the two days after that; 50 up to the seventh whole     *)
(* day; later max(0, 30 - 5 * whole weeks); 0 without deadline), minus the *)
(* goal term (the weight of the Category, plus 30 when at least three      *)
(* quarters of the Goal's Tasks are completed, or 15 when at least half),  *)
(* minus 20 for each Task that names this Task as its parent.              *)
C20_TaskPriorityFormula ==
  last.op = "calculate_task_priority" => last.ret = ClaimedScore(last.arg)

(* A High Task a minute overdue, in a Certifications Goal three quarters   *)
(* done, with three subtasks: 100 - 200 - (40 + 30) - 60.                  *)
C20_Witness ==
  /\ last.op = "calculate_task_priority"
  /\ last.arg = 1
  /\ ~tasks[1].completed
  /\ tasks[1].deadline = Some(now - 1)
  /\ Cardinality({t \in Ids(tasks) : tasks[t].parent_task_id = 1}) = 3
  /\ last.ret = -230

(* The Tasks a call returned, and what it means to choose from a pool. *)
Returned == {last.ret[i] : i \in DOMAIN last.ret}

Score(task_id) == calculate_task_priority(Store, task_id, now)

ChosenFrom(pool) ==
  /\ last.op = "get_daily_priorities" =>
       /\ Returned \subseteq pool
       /\ Len(last.ret) = Cardinality(Returned)
       /\ Len(last.ret) = Min(last.arg, Cardinality(pool))
       /\ \A t \in Returned, u \in pool \ Returned : Score(t) <= Score(u)
  /\ last.op = "suggest_next_task" =>
       IF pool = {} THEN last.ret = NoId
       ELSE /\ last.ret \in pool
            /\ \A u \in pool : Score(last.ret) <= Score(u)

ClaimedPool ==
  {t \in Ids(tasks) :
     /\ ~tasks[t].completed
     /\ \/ tasks[t].deadline = None
        \/ tasks[t].deadline[1] < At(DateOf(now) + 1, 0, 0)}
  \cup
  {t \in Ids(tasks) :
     /\ ~tasks[t].completed
     /\ tasks[t].priority = 1
     /\ \/ tasks[t].deadline = None
        \/ tasks[t].deadline[1] >= At(DateOf(now) + 1, 0, 0)}

(* C19 as stated: the pool from which get_daily_priorities and             *)
(* suggest_next_task choose is exactly the incomplete Tasks whose deadline *)
(* is before tomorrow or that have no deadline, together with the          *)
(* incomplete High Tasks that have no deadline or a deadline at or after   *)
(* tomorrow; suggest_next_task returns a lowest-scoring Task of that pool, *)
(* or none when the pool is empty.                                         *)
C19_PoolAsStated == ChosenFrom(ClaimedPool)

(* The incomplete Tasks that are High or due today or earlier. *)
DailyPool ==
  {t \in Ids(tasks) :
     /\ ~tasks[t].completed
     /\ \/ tasks[t].priority = 1
        \/ /\ tasks[t].deadline # None
           /\ DateOf(tasks[t].deadline[1]) <= DateOf(now)}

(* C19, amended: the pool is the incomplete Tasks that are High or have a  *)
(* deadline dated today or earlier; an incomplete Medium or Low Task       *)
(* without deadline is not in it.  get_daily_priorities returns the        *)
(* `limit` lowest-scoring Tasks of the pool, each once, and                *)
(* suggest_next_task a lowest-scoring one, or none when the pool is empty. *)
C19_PoolAmended == ChosenFrom(DailyPool)

(* suggest_next_task passes over the incomplete Medium Task 1 without      *)
(* deadline and returns the Medium subtask due today, ahead of the High    *)
(* subtask without deadline.                                               *)
C19_Witness ==
  /\ last.op = "suggest_next_task"
  /\ ~tasks[1].completed /\ tasks[1].priority = 2 /\ tasks[1].deadline = None
  /\ Ids(tasks) = {1, 2, 3}
  /\ DailyPool = {2, 3}
  /\ last.ret = 3

-----------------------------------------------------------------------------
(* The priority engine over pairs of Tasks that differ in their deadline *)

MaxPairSubtasks == 1

(* Tasks 1 and 2 are incomplete Tasks of the Goal goal_id with the same    *)
(* priority, due at `first` and at `second`; each has n subtasks, High and *)
(* without deadline, in the Goal "AWS".                                    *)
PairStore(other, goal_id, priority, first, second, n) ==
  [EmptyStore EXCEPT
     !.categories = (1 :> [name |-> "Certifications"]) @@ (2 :> [name |-> other]),
     !.goals = (1 :> [title |-> "AWS", category_id |-> 1])
                 @@ (2 :> [title |-> other, category_id |-> 2]),
     !.tasks =
       [t \in 1..(2 + 2 * n) |->
          IF t = 1 THEN NewTask("Exam", goal_id, first, priority)
          ELSE IF t = 2 THEN NewTask("Essay", goal_id, second, priority)
          ELSE [NewTask("Chapter", 1, None, 1)
                  EXCEPT !.parent_task_id = IF t % 2 = 1 THEN 1 ELSE 2]]]

InitPair ==
  /\ now = PriorityNow
  /\ \E goal \in {<<"Class 11", 1>>, <<"Study", 2>>},
        first \in {Some(PriorityNow - 2 * MinutesPerDay), Some(PriorityNow - 1),
                   Some(PriorityNow)},
        second \in PriorityDeadlines, priority \in {1, 2, 3}, n \in 0..MaxPairSubtasks :
       \E S \in {PairStore(goal[1], goal[2], priority, first, second, n)} :
         /\ categories = S.categories
         /\ goals = S.goals
         /\ tasks = S.tasks
         /\ reminders = S.reminders
         /\ blueprints = S.blueprints
         /\ slots = S.slots
  /\ dirty = EmptyTable
  /\ last = Result("init", 0, 0, FALSE)
  /\ calls = 0

SpecPair == InitPair /\ [][NextPriority]_vars

Subtasks(task_id) == {t \in Ids(tasks) : tasks[t].parent_task_id = task_id}

(* Two incomplete Tasks equal in priority, Goal (and so Category) and      *)
(* number of subtasks.                                                     *)
AllElseEqual(t, u) ==
  /\ t # u
  /\ ~tasks[t].completed /\ ~tasks[u].completed
  /\ tasks[t].priority = tasks[u].priority
  /\ tasks[t].goal_id = tasks[u].goal_id
  /\ Cardinality(Subtasks(t)) = Cardinality(Subtasks(u))

Overdue(t) == tasks[t].deadline # None /\ tasks[t].deadline[1] < now

DueAhead(t, days) ==
  tasks[t].deadline # None /\ tasks[t].deadline[1] >= now + days * MinutesPerDay

(* C21: of two incomplete Tasks equal in priority, Goal, Category and      *)
(* number of subtasks, one overdue and the other due 8 or more days ahead, *)
(* the overdue one scores lower by at least 150 points.                    *)
C21_OverdueBeatsLater ==
  \A t, u \in Ids(tasks) :
    (AllElseEqual(t, u) /\ Overdue(t) /\ DueAhead(u, 8)) => Score(t) + 150 <= Score(u)

(* The overdue Task 1 was scored 175 below its twin due 14 days ahead,     *)
(* each with one subtask: 200 against 20 of deadline term.                 *)
C21_Witness ==
  /\ last.op = "calculate_task_priority"
  /\ last.arg = 1
  /\ AllElseEqual(1, 2) /\ Overdue(1) /\ DueAhead(2, 14)
  /\ Cardinality(Subtasks(1)) = 1
  /\ last.ret = Score(2) - 180

(* The place of a Task in a sequence that holds it once. *)
PlaceIn(seq, task_id) == CHOOSE i \in DOMAIN seq : seq[i] = task_id

Ranked(found, sorted) ==
  LET score == [t \in Ids(tasks) |-> Score(t)]
      place == [t \in {found[i] : i \in DOMAIN found} |-> PlaceIn(found, t)]
  IN /\ Len(sorted) = Len(found)
     /\ {sorted[i] : i \in DOMAIN sorted} = DOMAIN place
     /\ \A i, j \in DOMAIN sorted :
          i < j =>
            /\ score[sorted[i]] <= score[sorted[j]]
            /\ score[sorted[i]] = score[sorted[j]] =>
                 place[sorted[i]] < place[sorted[j]]

(* C22: prioritize_tasks(tasks) returns a permutation of its input, sorted *)
(* ascending by score, in which Tasks of equal score keep their relative   *)
(* input order; and with the store and the clock as they were, scoring a   *)
(* Task again gives the number that was returned for it.                   *)
C22_StableRanking ==
  /\ last.op = "prioritize_tasks" => Ranked(last.arg, last.ret)
  /\ last.op = "calculate_task_priority" => Score(last.arg) = last.ret

(* The High subtasks 4 and 2 score the same and were passed as 4, ..., 2:  *)
(* the subtask due today comes first, then 4 before 2, then the Low Task.  *)
C22_Witness ==
  /\ last.op = "prioritize_tasks"
  /\ last.arg = <<4, 1, 2, 3>>
  /\ Score(2) = Score(4)
  /\ last.ret = <<3, 4, 2, 1>>

-----------------------------------------------------------------------------
(* The schedule of a day *)

AskedDay == IF last.arg = NoDay THEN DAYS[WeekdayNum(now) + 1] ELSE last.arg

(* The result lists the TimeSlots of Blueprint b, each once, by ascending  *)
(* start time as the session holds it.                                     *)
ListsSlotsOf(b, listed) ==
  /\ {listed[i].id : i \in DOMAIN listed} = SlotsOf(b)
  /\ Len(listed) = Cardinality(SlotsOf(b))
  /\ \A i, j \in DOMAIN listed :
       i < j => Session.slots[listed[i].id].start_time
                  <= Session.slots[listed[j].id].start_time

(* The answer of the last call, against the store it left as it was. *)
DailyScheduleAnswered ==
  last.op = "get_daily_schedule" =>
    /\ ~last.raised
    /\ IF BlueprintsOfDay(AskedDay) = {}
         THEN ~last.ret.has_schedule /\ last.ret.time_slots = <<>>
         ELSE /\ last.ret.has_schedule
              /\ \E b \in BlueprintsOfDay(AskedDay) :
                   ListsSlotsOf(b, last.ret.time_slots)

DailyScheduleReads == last'.op = "get_daily_schedule" => StoreUnchanged

(* C23: get_daily_schedule(day) for a day without Blueprint returns a      *)
(* result with has_schedule false and an empty time_slots list, without    *)
(* raising and without changing the store; for a day with a Blueprint it   *)
(* returns the TimeSlots of that Blueprint, and only those, sorted by      *)
(* start time.                                                             *)
C23_DailySchedule == []DailyScheduleAnswered /\ [][DailyScheduleReads]_vars

(* Monday's Blueprint was deleted, six others remain with their TimeSlots, *)
(* and the schedule of today, a Monday, was asked for.                     *)
C23_Witness ==
  /\ last.op = "get_daily_schedule"
  /\ last.arg = NoDay
  /\ BlueprintsOfDay("Monday") = {}
  /\ Cardinality(Ids(blueprints)) = 6
  /\ slots # EmptyTable
  /\ ~last.ret.has_schedule
  /\ last.ret.time_slots = <<>>

-----------------------------------------------------------------------------
(* Generation over task sets with many categories the balance table does   *)
(* not name                                                                *)

MaxManyUnknown == 18

InitBalance ==
  /\ now = At(0, 10, 0)
  /\ \E c11 \in {<<>>, <<1, 1>>, <<2, 1>>, <<1, 3>>}, ai \in {<<>>, <<1, 2>>},
        n \in 0..MaxManyUnknown :
       \E S \in {TaskSetStore(c11, ai, n, FALSE, now)} :
          /\ categories = S.categories
          /\ goals = S.goals
          /\ tasks = S.tasks
          /\ reminders = S.reminders
          /\ blueprints = S.blueprints
          /\ slots = S.slots
  /\ dirty = EmptyTable
  /\ last = Result("init", 0, TRUE, FALSE)
  /\ calls = 0

SpecBalance == InitBalance /\ [][NextGen]_vars

(* C24 as the spec states it: after generate_weekly_schedule() returned    *)
(* true, every weekday's Blueprint holds at most 8 TimeSlots, the number   *)
(* of tasks balance_day_tasks selected for the day, for any task set       *)
(* including one with many categories absent from the balance table.       *)
C24_DayCap ==
  Generated =>
    \A d \in DOMAIN DAYS :
      \A b \in BlueprintsOfDay(DAYS[d]) : Cardinality(SlotsOf(b)) <= MaxDayTasks

(* The incomplete Tasks of a category that are eligible for a day, and     *)
(* those of them the day's Blueprint holds a TimeSlot for.                 *)
EligibleOn(d, c) ==
  {t \in Ids(tasks) :
     /\ ~tasks[t].completed
     /\ goals[tasks[t].goal_id].category_id = c
     /\ is_task_eligible_for_day(TaskInfo(Store, t), DAYS[d], now)}

SelectedOn(d, c) ==
  {t \in EligibleOn(d, c) :
     \E b \in BlueprintsOfDay(DAYS[d]) : \E s \in SlotsOf(b) :
       slots[s].title = tasks[t].title /\ slots[s].goal_id = tasks[t].goal_id}

(* C25: in balance_day_tasks higher priority wins a category's slot        *)
(* budget: on every generated day and for every category, a Medium or Low  *)
(* task of the category is selected only if every eligible task of that    *)
(* category with a higher priority is selected too.                        *)
C25_HigherPriorityFirst ==
  Generated =>
    \A d \in DOMAIN DAYS : \A c \in Ids(categories) :
      \A t \in SelectedOn(d, c) : \A u \in EligibleOn(d, c) :
        tasks[u].priority < tasks[t].priority => u \in SelectedOn(d, c)

(* A generated Monday on which Class 11 has a High and a Medium task and   *)
(* a budget of one: the High task is selected, the Medium one is not.      *)
C25_Witness ==
  /\ Generated
  /\ \E c \in Ids(categories) :
       /\ categories[c].name = "Class 11"
       /\ \E t, u \in EligibleOn(1, c) :
            /\ tasks[t].priority = 1 /\ tasks[u].priority = 2
            /\ t > u
            /\ SelectedOn(1, c) = {t}

(* The TimeSlots of a Blueprint in the order they were added, the Task a   *)
(* TimeSlot stands for and the start times a category prefers.             *)
Allocated(b) == IdSeq(SlotsOf(b))

TaskOfSlot(s) ==
  CHOOSE t \in Ids(tasks) :
    tasks[t].title = slots[s].title /\ tasks[t].goal_id = slots[s].goal_id

CatalogStarts == {ParseTime(available_slots[i].start) : i \in DOMAIN available_slots}

PreferredStarts(s) ==
  IF CategoryNameOf(s) \in DOMAIN category_time_preferences
    THEN LET band == category_time_preferences[CategoryNameOf(s)]
         IN {ParseTime(band[i].start) : i \in DOMAIN band}
    ELSE CatalogStarts

Earliest(starts) == CHOOSE x \in starts : \A y \in starts : x <= y

(* The Tasks balance_day_tasks selects for day d. *)
BalancedOn(d) ==
  LET selected == balance_day_tasks(day_tasks_of(tasks_by_category(Store), DAYS[d], now))
  IN {selected[i].id : i \in DOMAIN selected}

PlacedInOrder(b) ==
  LET order == Allocated(b)
  IN \A i \in DOMAIN order :
       LET used == {slots[order[j]].start_time : j \in 1..(i - 1)}
           preferred == PreferredStarts(order[i]) \ used
           start == slots[order[i]].start_time
       IN /\ \A j \in 1..(i - 1) :
               tasks[TaskOfSlot(order[j])].priority <= tasks[TaskOfSlot(order[i])].priority
          /\ IF preferred # {} THEN start = Earliest(preferred)
             ELSE start = Earliest(CatalogStarts \ used)

(* C26: allocate_time_slots places tasks in priority order; each task gets *)
(* the first not-yet-used slot of its category's preferred bands, the      *)
(* first not-yet-used slot of the full catalog of 16 only when every       *)
(* preferred slot is used that day, and is left out of the day, without an *)
(* error, only when all 16 catalog slots are used.                         *)
C26_SlotAllocation ==
  Generated =>
    \A d \in DOMAIN DAYS : \A b \in BlueprintsOfDay(DAYS[d]) :
      /\ PlacedInOrder(b)
      /\ {TaskOfSlot(s) : s \in SlotsOf(b)} \subseteq BalancedOn(d)
      /\ {TaskOfSlot(s) : s \in SlotsOf(b)} # BalancedOn(d) =>
           {slots[s].start_time : s \in SlotsOf(b)} = CatalogStarts

(* A generated Monday for which 17 tasks were selected, a Medium Class 11  *)
(* task last among them: the 16 catalog slots are used by the High tasks   *)
(* and the Class 11 task is left out.                                      *)
C26_Witness ==
  /\ Generated
  /\ Cardinality(BalancedOn(1)) = 17
  /\ \E b \in BlueprintsOfDay("Monday") :
       /\ Cardinality(SlotsOf(b)) = Len(available_slots)
       /\ \E t \in BalancedOn(1) :
            /\ tasks[t].priority = 2
            /\ t \notin {TaskOfSlot(s) : s \in SlotsOf(b)}

-----------------------------------------------------------------------------
(* The eligibility of one Task for each day of the week *)

(* Deadlines on each side of the two midnights that bound today and        *)
(* tomorrow.                                                               *)
EligibleDeadlines ==
  {None, Some(At(8, 9, 0)), Some(At(9, 23, 59)), Some(At(10, 0, 0)), Some(At(11, 23, 59)),
   Some(At(12, 0, 0)), Some(At(20, 9, 0))}

InitEligible ==
  /\ now = PriorityNow
  /\ \E goal \in {<<"Class 11", 1>>} \cup {<<other, 2>> : other \in OtherCategoryNames},
        deadline \in EligibleDeadlines :
       \E S \in {PriorityStore(goal[1], goal[2], deadline, 2, FALSE, 0, 0)} :
         /\ categories = S.categories
         /\ goals = S.goals
         /\ tasks = S.tasks
         /\ reminders = S.reminders
         /\ blueprints = S.blueprints
         /\ slots = S.slots
  /\ dirty = EmptyTable
  /\ last = Result("init", 0, FALSE, FALSE)
  /\ calls = 0

IsTaskEligibleForDay(task_id, day) ==
  /\ last' = Result("is_task_eligible_for_day", <<task_id, day>>,
                    is_task_eligible_for_day(TaskInfo(Store, task_id), day, now), FALSE)
  /\ UNCHANGED <<now, categories, goals, tasks, reminders, blueprints, slots, dirty,
                 calls>>

NextEligible ==
  \E task_id \in Ids(tasks), day \in SeqToSet(DAYS) : IsTaskEligibleForDay(task_id, day)

SpecEligible == InitEligible /\ [][NextEligible]_vars

(* The day-preference list of the spec: the table's list, every day for a  *)
(* category the table does not name.                                       *)
PreferredDays(category) ==
  IF category \in DOMAIN day_preferences THEN day_preferences[category] ELSE SeqToSet(DAYS)

(* C27 as the spec states it: is_task_eligible_for_day(task, day) holds    *)
(* exactly when the task's deadline falls today or tomorrow, or day is in  *)
(* the day-preference list of the task's category; a task whose category   *)
(* is absent from the table is eligible on every day.                      *)
C27_EligibleExactly ==
  last.op = "is_task_eligible_for_day" =>
    LET task == tasks[last.arg[1]]
        category == categories[goals[task.goal_id].category_id].name
    IN last.ret <=>
         \/ /\ task.deadline # None
            /\ DateOf(task.deadline[1]) \in {DateOf(now), DateOf(now) + 1}
         \/ last.arg[2] \in PreferredDays(category)

-----------------------------------------------------------------------------
(* Snoozing on its own: the schedule of the start-up, read on any day of   *)
(* the two weeks that follow, and up to MaxSnoozeCalls calls of            *)
(* snooze_task on any of its TimeSlots or on an id no TimeSlot has.  The   *)
(* first imported task is due on the first Wednesday at 12:00.             *)

MaxSnoozeCalls == 2
SnoozeDays == 0..8

InitSnooze ==
  /\ now \in {At(d, h, 0) : d \in SnoozeDays, h \in {0, 13}}
  /\ \E S \in {StartUp(At(0, 0, 0))} :
       /\ categories = S.categories
       /\ goals = S.goals
       /\ tasks = S.tasks
       /\ reminders = S.reminders
       /\ blueprints = S.blueprints
       /\ slots = S.slots
  /\ dirty = EmptyTable
  /\ last = Result("init", 0, TRUE, FALSE)
  /\ calls = 0

NextSnooze ==
  /\ calls < MaxSnoozeCalls
  /\ calls' = calls + 1
  /\ \E slot_id \in Ids(slots) \cup {NextId(slots)}, fault \in SnoozeFaults :
       SnoozeTask(slot_id, fault)

SpecSnooze == InitSnooze /\ [][NextSnooze]_vars

(* datetime.utcnow().strftime("%A") *)
TodayName == DAYS[WeekdayNum(now) + 1]

(* The TimeSlot belongs to a Blueprint of today's day of the week. *)
OfToday(B, s) == B[s.blueprint_id].day_of_week = TodayName

(* The TimeSlot stands for the Task: same goal_id, same title. *)
StandsFor(s, task) == s.goal_id = task.goal_id /\ s.title = task.title

(* C28: after snooze_task(slot_id) returns true for a slot of today's      *)
(* Blueprint whose backing task was due today or earlier, no TimeSlot of   *)
(* today's Blueprint stands for that task.                                 *)
C28_SnoozeLeavesToday ==
  [][(/\ SnoozeReturnedTrue
      /\ SnoozedDue(last'.arg)
      /\ OfToday(blueprints, slots[last'.arg]))
       => \A s \in Ids(slots') :
            OfToday(blueprints', slots'[s])
              => ~StandsFor(slots'[s], tasks[Backing(last'.arg)])]_vars

-----------------------------------------------------------------------------
(* The minute job beside the request handlers.  check_reminders runs on    *)
(* the scheduler's thread with a session of its own: it reads the pending  *)
(* Reminders, marks the loaded objects and writes them at its commit, one  *)
(* UPDATE ... SET triggered = 1 WHERE id = ? for each.  What a request     *)
(* handler commits after the read and before the commit is in the store    *)
(* when the UPDATEs arrive.  dirty holds the marked objects of a sweep     *)
(* that has read and not yet committed.                                    *)

(* Reminder.query.filter(reminder_time <= now,                             *)
(*                       reminder_time >= five_minutes_ago,                *)
(*                       triggered == False)                               *)
pending_reminders(S, clock) ==
  {r \in Ids(S.reminders) : /\ S.reminders[r].reminder_time <= clock
                            /\ S.reminders[r].reminder_time >= clock - ReminderWindow
                            /\ ~S.reminders[r].triggered}

(* The commit of the sweep.  An UPDATE that matches no row raises          *)
(* (StaleDataError) and the transaction is rolled back.                    *)
flush_reminders(S, marked) ==
  IF marked \subseteq Ids(S.reminders)
    THEN [S EXCEPT !.reminders =
            [r \in Ids(@) |-> IF r \in marked THEN [@[r] EXCEPT !.triggered = TRUE]
                              ELSE @[r]]]
    ELSE S

MaxSweepCalls == 3

(* Monday 09:00 or 09:05.  The task "Maths" due at 10:05 was created at    *)
(* 09:00, and with it the Reminder of 09:05.                               *)
InitSweep ==
  /\ now \in {At(0, 9, 0), At(0, 9, ReminderWindow)}
  /\ \E S \in {create_task(StartUp(At(0, 0, 0)),
                           [title |-> "Maths", goal_id |-> 1,
                            deadline |-> Some(At(0, 10, 5)), priority |-> 2,
                            recurrence_type |-> None, recurrence_value |-> None,
                            parent_task_id |-> NoId],
                           At(0, 9, 0)).store} :
       /\ categories = S.categories
       /\ goals = S.goals
       /\ tasks = S.tasks
       /\ reminders = S.reminders
       /\ blueprints = S.blueprints
       /\ slots = S.slots
  /\ dirty = EmptyTable
  /\ last = Result("init", 0, TRUE, FALSE)
  /\ calls = 0

(* check_reminders up to the end of its loop. *)
QueryReminders ==
  /\ dirty = EmptyTable
  /\ dirty' = [r \in pending_reminders(Store, now) |->
                 [reminders[r] EXCEPT !.triggered = TRUE]]
  /\ last' = Result("query_reminders", 0, TRUE, FALSE)
  /\ UNCHANGED <<now, categories, goals, tasks, reminders, blueprints, slots>>

(* if pending_reminders: db.session.commit() *)
FlushReminders ==
  /\ dirty # EmptyTable
  /\ Commit(flush_reminders(Store, Ids(dirty)))
  /\ last' = Result("check_reminders", 0, TRUE, ~(Ids(dirty) \subseteq Ids(reminders)))
  /\ UNCHANGED now

(* A request handled on another thread: its commit reaches the store, the  *)
(* sweep's session is not touched.                                         *)
Handled(op, arg, S) ==
  /\ categories' = S.categories
  /\ goals' = S.goals
  /\ tasks' = S.tasks
  /\ reminders' = S.reminders
  /\ blueprints' = S.blueprints
  /\ slots' = S.slots
  /\ last' = Result(op, arg, TRUE, FALSE)
  /\ UNCHANGED <<now, dirty>>

(* Five minutes pass between two runs of the job. *)
WaitForSweep == dirty = EmptyTable /\ Wait(ReminderWindow)

CallSweep ==
  \/ QueryReminders
  \/ FlushReminders
  \/ WaitForSweep
  \/ Handled("import", 2, import_blueprint_to_database(Store, Docs[2], now, FALSE).store)
  \/ Handled("generate", 0, generate_weekly_schedule(Store, now, NoFault).store)
  \/ \E slot_id \in {1} :
       Handled("mark_slot_complete", slot_id,
               mark_slot_complete(Store, slot_id, now, "none").store)
  \/ \E slot_id \in {1} :
       Handled("snooze_task", slot_id,
               snooze_task(Store, slot_id, now, OpFault("none")).store)
  \/ \E task_id \in Ids(tasks) :
       Handled("handle_missed_task", task_id,
               handle_missed_task(Store, task_id, now, OpFault("none")).store)
  \/ \E args \in CreateArgs :
       Handled("create_task", args.title, create_task(Store, args, now).store)
  \/ \E task_id \in Ids(tasks), args \in UpdateArgs :
       Handled("update_task", task_id, update_task(Store, task_id, args, now).store)
  \/ \E task_id \in Ids(tasks) :
       Handled("delete_task", task_id, delete_task(Store, task_id).store)
  \/ \E task_id \in Ids(tasks) :
       Handled("create_reminder", task_id,
               service_create_reminder(Store, task_id, now).store)
  \/ \E reminder_id \in Ids(reminders), args \in ReminderArgs :
       Handled("update_reminder", reminder_id,
               update_reminder(Store, reminder_id, args).store)

NextSweep == calls < MaxSweepCalls /\ calls' = calls + 1 /\ CallSweep

SpecSweep == InitSweep /\ [][NextSweep]_vars

(* The Reminder's trigger time lies in the look-back window of the clock. *)
InWindow(r) ==
  /\ reminders[r].reminder_time <= now
  /\ reminders[r].reminder_time >= now - ReminderWindow

(* The commit of a sweep changed the Reminder. *)
Swept(r) == reminders'[r] # reminders[r]

(* C29: wherever the request handlers run around it, a check_reminders     *)
(* changes nothing but the triggered flag of Reminders whose trigger time  *)
(* lies in the look-back window, changes that flag only from false to      *)
(* true, and a second run right after the first finds nothing to change.   *)
C29_SweepInterleaves ==
  [][/\ last'.op = "check_reminders" =>
          /\ UNCHANGED <<categories, goals, tasks, blueprints, slots>>
          /\ Ids(reminders') = Ids(reminders)
          /\ \A r \in Ids(reminders) :
               Swept(r) =>
                 /\ reminders'[r] = [reminders[r] EXCEPT !.triggered = TRUE]
                 /\ ~reminders[r].triggered
                 /\ InWindow(r)
     /\ (last.op = "check_reminders" /\ last'.op = "query_reminders")
          => dirty' = EmptyTable]_vars

-----------------------------------------------------------------------------
(* The midnight job over the days after a recurring task was completed.    *)
(* One of the imported tasks was marked completed on Wednesday 15:00 and   *)
(* made recurring; it is the midnight that follows.                        *)

MaxRecurringCalls == 6

Recurrences == {<<"daily", 1>>, <<"daily", 2>>, <<"weekly", 1>>}

InitRecurring ==
  /\ now = At(3, 0, 0)
  /\ \E task_id \in {1, 2}, every \in Recurrences :
       \E S \in {update_task(StartUp(At(0, 0, 0)), task_id,
                             [NoUpdate EXCEPT !.completed = Some(TRUE),
                                              !.recurrence_type = Some(every[1]),
                                              !.recurrence_value = Some(every[2])],
                             At(2, 15, 0)).store} :
         /\ categories = S.categories
         /\ goals = S.goals
         /\ tasks = S.tasks
         /\ reminders = S.reminders
         /\ blueprints = S.blueprints
         /\ slots = S.slots
  /\ dirty = EmptyTable
  /\ last = Result("init", 0, TRUE, FALSE)
  /\ calls = 0

NextRecurring ==
  /\ calls < MaxRecurringCalls
  /\ calls' = calls + 1
  /\ \/ HandleRecurringTasks
     \/ Tick

SpecRecurring == InitRecurring /\ [][NextRecurring]_vars

(* The instances the sweep has made of a Task. *)
Successors(tbl, t) == {u \in Ids(tbl) : tbl[u].parent_task_id = t}

(* C30: once a successor instance of a completed recurring task exists, a  *)
(* run of handle_recurring_tasks on a following day creates no further     *)
(* instance of that task.                                                  *)
C30_OneSuccessor ==
  [][(last.op = "tick" /\ last'.op = "handle_recurring_tasks")
       => \A t \in Ids(tasks) :
            Successors(tasks, t) # {}
              => Successors(tasks', t) = Successors(tasks, t)]_vars

====
